---- MODULE Spec2Model ----
(***************************************************************************)
(* Model of the onenode-js document serialization engine: the embeddable   *)
(* field types Text and Image, the document walker                         *)
(* (Collection.serialize / Collection.deserialize), the binary extraction  *)
(* pass (Collection.extractBinaryData) and the request methods of          *)
(* Collection that use them.                                               *)
(*                                                                         *)
(* JavaScript values are records tagged by the field k.  A plain object is *)
(* the sequence of its entries in Object.entries order; a thrown exception *)
(* is a record with k = "throw".                                           *)
(***************************************************************************)
EXTENDS Integers, Sequences, FiniteSets, TLC

(***************************************************************************)
(* JavaScript values                                                       *)
(***************************************************************************)
JNull == [k |-> "null"]
JUndef == [k |-> "undefined"]
JBool(b) == [k |-> "boolean", b |-> b]
JNum(n) == [k |-> "number", n |-> n]
JStr(s) == [k |-> "string", s |-> s]
JArr(items) == [k |-> "array", items |-> items]
JMap(ent) == [k |-> "object", ent |-> ent]
Entry(key, val) == [key |-> key, val |-> val]
\* a property whose value is the root object of the document (obj.self = obj)
JRef == [k |-> "ref"]
\* a run of `levels` containers, each the only child of the one before and
\* the last one holding `inner`: objects {a: {a: ... inner}} or arrays
\* [[... inner]].  The evaluator cannot recurse a hundred levels deep, so a
\* deep document is held in this form and the walkers take its levels at once.
JNest(of, levels, inner) == [k |-> "nest", of |-> of, levels |-> levels, inner |-> inner]
NestKey == "a"
Throw(name, msg) == [k |-> "throw", name |-> name, msg |-> msg]
ThrowStatus(name, code, msg) == [k |-> "throw", name |-> name, msg |-> msg, statusCode |-> code]
IsThrow(r) == r.k = "throw"

Keys(ent) == {ent[i].key : i \in 1..Len(ent)}
\* `key in obj`
HasKey(ent, key) == key \in Keys(ent)
\* obj[key]: undefined when the key is absent
Get(ent, key) ==
    IF HasKey(ent, key)
    THEN ent[CHOOSE i \in 1..Len(ent) : ent[i].key = key].val
    ELSE JUndef
\* obj[key] = val on an object literal under construction
Put(ent, key, val) ==
    IF HasKey(ent, key)
    THEN [i \in 1..Len(ent) |-> IF ent[i].key = key THEN Entry(key, val) ELSE ent[i]]
    ELSE Append(ent, Entry(key, val))

\* JavaScript truthiness, as used by `a || b`
Truthy(v) ==
    CASE v.k \in {"null", "undefined"} -> FALSE
      [] v.k = "boolean" -> v.b
      [] v.k = "number" -> v.n # 0
      [] v.k = "string" -> v.s # ""
      [] OTHER -> TRUE
OrElse(a, b) == IF Truthy(a) THEN a ELSE b

(***************************************************************************)
(* Strings                                                                 *)
(***************************************************************************)
CharAt(s, i) == SubSeq(s, i, i)
StartsWith(s, p) == Len(s) >= Len(p) /\ SubSeq(s, 1, Len(p)) = p
EndsWith(s, p) == Len(s) >= Len(p) /\ SubSeq(s, Len(s) - Len(p) + 1, Len(s)) = p
Contains(s, p) == \E i \in 1..(Len(s) - Len(p) + 1) : SubSeq(s, i, i + Len(p) - 1) = p
WhiteSpace == {" ", "\t", "\n", "\r"}
RECURSIVE TrimStart(_)
TrimStart(s) == IF s # "" /\ CharAt(s, 1) \in WhiteSpace THEN TrimStart(Tail(s)) ELSE s
RECURSIVE TrimEnd(_)
TrimEnd(s) ==
    IF s # "" /\ CharAt(s, Len(s)) \in WhiteSpace THEN TrimEnd(SubSeq(s, 1, Len(s) - 1)) ELSE s
\* String.prototype.trim
Trim(s) == TrimEnd(TrimStart(s))
\* Array.prototype.join(", ")
RECURSIVE Join(_)
Join(seq) ==
    IF seq = <<>> THEN ""
    ELSE IF Len(seq) = 1 THEN seq[1]
    ELSE seq[1] \o ", " \o Join(Tail(seq))
\* template-literal conversion `${v}` of the values the model interpolates
Interp(v) ==
    CASE v.k = "string" -> v.s
      [] v.k = "null" -> "null"
      [] v.k = "undefined" -> "undefined"
      [] v.k = "number" -> ToString(v.n)
      [] v.k = "boolean" -> IF v.b THEN "true" ELSE "false"
      [] OTHER -> "[object Object]"

(***************************************************************************)
(* Models (ejson/models)                                                   *)
(***************************************************************************)
TextToEmbeddingValues ==
    <<"text-embedding-3-small", "text-embedding-3-large", "text-embedding-ada-002">>
ImageToTextValues ==
    <<"gpt-4o", "gpt-4o-mini", "o4-mini", "o3", "o1", "o1-pro", "gpt-4.1", "gpt-4.1-mini",
      "gpt-4.1-nano">>
\* Array.prototype.includes on an array of strings
Includes(seq, v) == v.k = "string" /\ \E i \in 1..Len(seq) : seq[i] = v.s

(***************************************************************************)
(* Text (ejson/text)                                                       *)
(***************************************************************************)
\* a faulty variant of isValidText: the content is not trimmed
TextIsValidTextUntrimmed(text) == text.k = "string" /\ Len(text.s) > 0
TextIsValidText(text) == text.k = "string" /\ Len(Trim(text.s)) > 0
TextIsValidEmbModel(embModel) == Includes(TextToEmbeddingValues, embModel)

\* new Text(text): the instance, or the exception the constructor throws
TextNew(text) ==
    IF ~TextIsValidText(text)
    THEN Throw("Error", "Invalid text: must be a non-empty string.")
    ELSE [k |-> "Text", text |-> text, chunks |-> JArr(<<>>), embModel |-> JNull,
          maxChunkSize |-> JNull, chunkOverlap |-> JNull, isSeparatorRegex |-> JNull,
          separators |-> JNull, keepSeparator |-> JNull, indexEnabled |-> JBool(FALSE)]

\* an options argument: every option the caller did not pass is undefined
NoOptions ==
    [embModel |-> JUndef, visionModel |-> JUndef, maxChunkSize |-> JUndef,
     chunkOverlap |-> JUndef, isSeparatorRegex |-> JUndef, separators |-> JUndef,
     keepSeparator |-> JUndef]

\* a faulty variant of the assignments: an option not passed resets its field
SetChunkingOptionsReset(t, options) ==
    [t EXCEPT
       !.maxChunkSize = IF options.maxChunkSize # JUndef THEN options.maxChunkSize ELSE JNull,
       !.chunkOverlap = IF options.chunkOverlap # JUndef THEN options.chunkOverlap ELSE JNull,
       !.isSeparatorRegex =
           IF options.isSeparatorRegex # JUndef THEN options.isSeparatorRegex ELSE JNull,
       !.separators = IF options.separators # JUndef THEN options.separators ELSE JNull,
       !.keepSeparator = IF options.keepSeparator # JUndef THEN options.keepSeparator ELSE JNull]
\* the assignments of enableIndex that follow the model validation
SetChunkingOptions(t, options) ==
    [t EXCEPT
       !.maxChunkSize = IF options.maxChunkSize # JUndef THEN options.maxChunkSize ELSE @,
       !.chunkOverlap = IF options.chunkOverlap # JUndef THEN options.chunkOverlap ELSE @,
       !.isSeparatorRegex =
           IF options.isSeparatorRegex # JUndef THEN options.isSeparatorRegex ELSE @,
       !.separators = IF options.separators # JUndef THEN options.separators ELSE @,
       !.keepSeparator = IF options.keepSeparator # JUndef THEN options.keepSeparator ELSE @]

\* the message of the error Text.enableIndex throws for a rejected model
TextEmbModelMessage(embModel) ==
    "Invalid embedding model: " \o Interp(embModel) \o " is not supported."

\* t.enableIndex(options): obj is the instance after the call (mutated in
\* place), ret the returned instance or the exception thrown
TextEnableIndex(t, options) ==
    LET t1 == [t EXCEPT !.indexEnabled = JBool(TRUE)] IN
    IF options.embModel # JUndef /\ ~TextIsValidEmbModel(options.embModel)
    THEN [obj |-> t1, ret |-> Throw("Error", TextEmbModelMessage(options.embModel))]
    ELSE LET t2 == IF options.embModel # JUndef
                   THEN [t1 EXCEPT !.embModel = options.embModel] ELSE t1
             t3 == SetChunkingOptions(t2, options)
         IN [obj |-> t3, ret |-> t3]

\* result.<key> = value, only if the field is not null
PutIfNotNull(ent, key, val) == IF val # JNull THEN Put(ent, key, val) ELSE ent

\* t._serialize()
TextSerialize(t) ==
    LET r0 == <<Entry("text", t.text), Entry("chunks", t.chunks),
                Entry("index", t.indexEnabled)>>
        r1 == PutIfNotNull(r0, "emb_model", t.embModel)
        r2 == PutIfNotNull(r1, "max_chunk_size", t.maxChunkSize)
        r3 == PutIfNotNull(r2, "chunk_overlap", t.chunkOverlap)
        r4 == PutIfNotNull(r3, "is_separator_regex", t.isSeparatorRegex)
        r5 == PutIfNotNull(r4, "separators", t.separators)
        r6 == PutIfNotNull(r5, "keep_separator", t.keepSeparator)
    IN JMap(<<Entry("xText", JMap(r6))>>)

\* the own properties of a value: a primitive or an array has none of the
\* names the decoders look up
PropsOf(v) == IF v.k = "object" THEN v.ent ELSE <<>>

\* instance.<field> = data[key], only if the key is in data
SetIfPresent(inst, field, ent, key) ==
    IF HasKey(ent, key) THEN [inst EXCEPT ![field] = Get(ent, key)] ELSE inst

\* Text._deserialize(data), data an object
TextDeserialize(data) ==
    LET Finish(configured, d) ==
            IF IsThrow(configured) THEN configured
            ELSE [configured EXCEPT !.chunks = OrElse(Get(d, "chunks"), JArr(<<>>))]
        Configure(instance, d) ==
            IF IsThrow(instance) THEN instance
            ELSE IF Get(d, "index") = JBool(TRUE)
            THEN TextEnableIndex(instance,
                     [embModel |-> Get(d, "emb_model"), visionModel |-> JUndef,
                      maxChunkSize |-> Get(d, "max_chunk_size"),
                      chunkOverlap |-> Get(d, "chunk_overlap"),
                      isSeparatorRegex |-> Get(d, "is_separator_regex"),
                      separators |-> Get(d, "separators"),
                      keepSeparator |-> Get(d, "keep_separator")]).ret
            ELSE SetIfPresent(
                   SetIfPresent(
                     SetIfPresent(
                       SetIfPresent(
                         SetIfPresent(
                           SetIfPresent(instance, "embModel", d, "emb_model"),
                           "maxChunkSize", d, "max_chunk_size"),
                         "chunkOverlap", d, "chunk_overlap"),
                       "isSeparatorRegex", d, "is_separator_regex"),
                     "separators", d, "separators"),
                   "keepSeparator", d, "keep_separator")
        Restore(d, text) ==
            IF text \in {JUndef, JNull}
            THEN Throw("Error", "JSON data must include 'text' under 'xText'.")
            ELSE Finish(Configure(TextNew(text), d), d)
        Unwrapped(inner) ==
            IF inner.k \in {"null", "undefined"}
            THEN Throw("TypeError",
                       "Cannot read properties of " \o inner.k \o " (reading 'text')")
            ELSE Restore(PropsOf(inner), Get(PropsOf(inner), "text"))
    IN Unwrapped(IF HasKey(data.ent, "xText") THEN Get(data.ent, "xText") ELSE data)

(***************************************************************************)
(* Image (ejson/image)                                                     *)
(***************************************************************************)
SUPPORTED_MIME_TYPES == <<"image/jpeg", "image/jpg", "image/png", "image/gif", "image/webp">>

UpperChars == "ABCDEFGHIJKLMNOPQRSTUVWXYZ"
LowerChars == "abcdefghijklmnopqrstuvwxyz"
IndexIn(alphabet, c) ==
    IF \E i \in 1..Len(alphabet) : CharAt(alphabet, i) = c
    THEN CHOOSE i \in 1..Len(alphabet) : CharAt(alphabet, i) = c
    ELSE 0
\* String.prototype.toLowerCase
RECURSIVE ToLowerCase(_)
ToLowerCase(s) ==
    IF s = "" THEN ""
    ELSE LET c == CharAt(s, 1)
             i == IndexIn(UpperChars, c)
         IN (IF i > 0 THEN CharAt(LowerChars, i) ELSE c) \o ToLowerCase(Tail(s))

\* the base64 alphabet: the index of a character, less one, is its value
Base64Chars == UpperChars \o LowerChars \o "0123456789+/"
\* the number of '=' characters that end the string
RECURSIVE TrailingEquals(_)
TrailingEquals(s) ==
    IF s # "" /\ CharAt(s, Len(s)) = "=" THEN 1 + TrailingEquals(SubSeq(s, 1, Len(s) - 1)) ELSE 0
\* /^[A-Za-z0-9+/]+=*$/.test(data)
MatchesBase64(s) ==
    LET body == SubSeq(s, 1, Len(s) - TrailingEquals(s)) IN
    /\ body # ""
    /\ \A i \in 1..Len(body) : IndexIn(Base64Chars, CharAt(body, i)) > 0
\* the bytes of a run of base64 digits: three for every four digits, two for
\* a remainder of three, one for a remainder of two
RECURSIVE DecodeDigits(_)
DecodeDigits(s) ==
    LET v(i) == IndexIn(Base64Chars, CharAt(s, i)) - 1 IN
    IF Len(s) < 2 THEN <<>>
    ELSE IF Len(s) = 2 THEN <<v(1) * 4 + v(2) \div 16>>
    ELSE IF Len(s) = 3
         THEN <<v(1) * 4 + v(2) \div 16, (v(2) % 16) * 16 + v(3) \div 4>>
    ELSE <<v(1) * 4 + v(2) \div 16, (v(2) % 16) * 16 + v(3) \div 4, (v(3) % 4) * 64 + v(4)>>
         \o DecodeDigits(SubSeq(s, 5, Len(s)))
\* atob(s): ok is false where atob throws
Atob(s) ==
    LET Decode(body) ==
            LET ok == /\ Len(body) % 4 # 1
                      /\ \A i \in 1..Len(body) : IndexIn(Base64Chars, CharAt(body, i)) > 0
            IN [ok |-> ok, bytes |-> IF ok THEN DecodeDigits(body) ELSE <<>>]
        Strip(pad) == Decode(SubSeq(s, 1, Len(s) - pad))
        Padding(equals) == IF Len(s) % 4 # 0 THEN 0 ELSE IF equals >= 2 THEN 2 ELSE equals
    IN Strip(Padding(TrailingEquals(s)))

\* the magic-byte table of extractMimeTypeFromBytes
ExtractMimeTypeFromBytes(bytes) ==
    IF Len(bytes) < 4 THEN "image/jpeg"
    ELSE IF bytes[1] = 255 /\ bytes[2] = 216 /\ bytes[3] = 255 THEN "image/jpeg"
    ELSE IF /\ bytes[1] = 137 /\ bytes[2] = 80 /\ bytes[3] = 78 /\ bytes[4] = 71
            /\ Len(bytes) > 7
            /\ bytes[5] = 13 /\ bytes[6] = 10 /\ bytes[7] = 26 /\ bytes[8] = 10
         THEN "image/png"
    ELSE IF /\ Len(bytes) >= 6
            /\ bytes[1] = 71 /\ bytes[2] = 73 /\ bytes[3] = 70 /\ bytes[4] = 56
            /\ bytes[5] \in {55, 57} /\ bytes[6] = 97
         THEN "image/gif"
    ELSE IF /\ Len(bytes) >= 12
            /\ bytes[1] = 82 /\ bytes[2] = 73 /\ bytes[3] = 70 /\ bytes[4] = 70
            /\ bytes[9] = 87 /\ bytes[10] = 69 /\ bytes[11] = 66 /\ bytes[12] = 80
         THEN "image/webp"
    ELSE "image/jpeg"

\* extractMimeTypeFromUrl and extractMimeTypeFromFileName: by extension
ExtractMimeTypeFromName(name) ==
    LET lower == ToLowerCase(name) IN
    IF EndsWith(lower, ".jpg") \/ EndsWith(lower, ".jpeg") THEN "image/jpeg"
    ELSE IF EndsWith(lower, ".png") THEN "image/png"
    ELSE IF EndsWith(lower, ".gif") THEN "image/gif"
    ELSE IF EndsWith(lower, ".webp") THEN "image/webp"
    ELSE "image/jpeg"

ExtractMimeTypeFromBase64(base64Data) ==
    LET sampleData == IF Len(base64Data) > 100 THEN SubSeq(base64Data, 1, 100) ELSE base64Data
        FromDecoded(decoded) ==
            IF decoded.ok THEN ExtractMimeTypeFromBytes(decoded.bytes) ELSE "image/jpeg"
    IN FromDecoded(Atob(sampleData))

\* the files of the local file system that fs.existsSync and fs.readFileSync see
FileSystem ==
    [path \in {"pic.png", "notes.txt"} |->
        IF path = "pic.png" THEN <<137, 80, 78, 71, 13, 10, 26, 10>> ELSE <<104, 105>>]

\* data.match(/^data:([^;]+);base64,(.+)$/)
MatchDataUrl(s) ==
    LET Groups(rest, first, payload) ==
            LET ok == /\ StartsWith(s, "data:")
                      /\ first > 1
                      /\ payload # ""
                      /\ \A i \in 1..Len(payload) : CharAt(payload, i) \notin {"\n", "\r"}
            IN [ok |-> ok,
                urlMimeType |-> IF ok THEN SubSeq(rest, 1, first - 1) ELSE "",
                base64Data |-> payload]
        Payload(tail) ==
            IF StartsWith(tail, ";base64,") THEN SubSeq(tail, 9, Len(tail)) ELSE ""
        Split(rest, first) ==
            Groups(rest, first, Payload(IF first = 0 THEN "" ELSE SubSeq(rest, first, Len(rest))))
        First(semis) ==
            IF semis = {} THEN 0 ELSE CHOOSE i \in semis : \A j \in semis : i <= j
        Match(rest) == Split(rest, First({i \in 1..Len(rest) : CharAt(rest, i) = ";"}))
    IN Match(SubSeq(s, 6, Len(s)))

\* a faulty variant of isValidData: the empty string passes, as it did in
\* the constructor of the earlier Image
ImageIsValidDataOrEmpty(data) ==
    /\ data.k = "string"
    /\ (data.s = "" \/ StartsWith(data.s, "http") \/ MatchesBase64(data.s))
ImageIsValidData(data) ==
    /\ data.k = "string"
    /\ Len(Trim(data.s)) > 0
    /\ (StartsWith(data.s, "http") \/ MatchesBase64(data.s))

SupportedExtensions == {".jpg", ".jpeg", ".png", ".gif", ".webp"}
ImageIsValidFilePath(path) ==
    /\ path # ""
    /\ path \in DOMAIN FileSystem
    /\ \E ext \in SupportedExtensions : EndsWith(ToLowerCase(path), ext)

\* a faulty variant of isValidMimeType: any image type is taken
ImageIsValidMimeTypeLoose(mimeType) == mimeType.k = "string" /\ StartsWith(mimeType.s, "image/")
ImageIsValidMimeType(mimeType) == Includes(SUPPORTED_MIME_TYPES, mimeType)
ImageIsValidEmbModel(embModel) == Includes(TextToEmbeddingValues, embModel)
ImageIsValidVisionModel(visionModel) == Includes(ImageToTextValues, visionModel)

\* the fields the constructor sets after it has taken data and mimeType
ImageFields(data, mimeType) ==
    [k |-> "Image", data |-> data, mimeType |-> JStr(mimeType), chunks |-> JArr(<<>>),
     embModel |-> JNull, visionModel |-> JNull, maxChunkSize |-> JNull,
     chunkOverlap |-> JNull, isSeparatorRegex |-> JNull, separators |-> JNull,
     keepSeparator |-> JNull, indexEnabled |-> JBool(FALSE)]

BinaryKinds == {"File", "Blob", "ArrayBuffer", "Uint8Array"}

\* new Image(data): the instance, or the exception the constructor throws
ImageNew(data) ==
    IF data.k = "string" THEN
        IF StartsWith(data.s, "data:") THEN
            LET FromMatches(m) ==
                    IF ~m.ok
                    THEN Throw("Error",
                           "Invalid data URL format. Expected format: data:image/type;base64,<data>")
                    ELSE ImageFields(JStr(m.base64Data), m.urlMimeType)
            IN FromMatches(MatchDataUrl(data.s))
        ELSE IF StartsWith(data.s, "http") THEN
            ImageFields(data, ExtractMimeTypeFromName(data.s))
        ELSE IF ImageIsValidData(data) THEN
            ImageFields(data, ExtractMimeTypeFromBase64(data.s))
        ELSE IF ImageIsValidFilePath(data.s) THEN
            LET bytes == FileSystem[data.s] IN
            ImageFields([k |-> "Uint8Array", bytes |-> bytes], ExtractMimeTypeFromBytes(bytes))
        ELSE Throw("Error", "Invalid data: must be a non-empty string containing valid "
                   \o "base64-encoded image data, HTTP URL, or valid file path.")
    ELSE IF data.k = "File" THEN
        ImageFields(data, IF data.type # "" THEN data.type
                          ELSE ExtractMimeTypeFromName(data.name))
    ELSE IF data.k = "Blob" THEN
        ImageFields(data, IF data.type # "" THEN data.type ELSE "image/jpeg")
    ELSE IF data.k \in {"ArrayBuffer", "Uint8Array"} THEN
        ImageFields(data, ExtractMimeTypeFromBytes(data.bytes))
    ELSE Throw("Error", "Invalid data type: must be string (base64/data URL/HTTP URL/"
               \o "file path), File, Blob, ArrayBuffer, or Uint8Array")

ImageGetBinaryData(img) == IF img.data.k = "string" THEN JNull ELSE img.data
ImageGetBase64Data(img) ==
    IF img.data.k = "string" /\ ~StartsWith(img.data.s, "http") THEN img.data ELSE JNull
ImageHasBinaryData(img) ==
    IF img.data.k = "string" THEN StartsWith(img.data.s, "http") ELSE TRUE

\* image.toString()
ImageToString(img) ==
    IF img.data.k = "string" /\ StartsWith(img.data.s, "http")
    THEN "Image(" \o img.data.s \o ")"
    ELSE IF Len(img.chunks.items) > 0
    THEN "Image(\"" \o Interp(img.chunks.items[1]) \o "\")"
    ELSE "Image(<raw data>)"

ImageMimeMessage(mimeType) ==
    "Unsupported mime type: '" \o Interp(mimeType) \o "'. Supported types are: "
    \o Join(SUPPORTED_MIME_TYPES)
ImageEmbModelMessage(embModel) ==
    "Invalid embedding model: '" \o Interp(embModel)
    \o "' is not supported. Supported models are: " \o Join(TextToEmbeddingValues)
ImageVisionModelMessage(visionModel) ==
    "Invalid vision model: '" \o Interp(visionModel)
    \o "' is not supported. Supported models are: " \o Join(ImageToTextValues)

\* img.enableIndex(options): obj is the instance after the call (mutated in
\* place), ret the returned instance or the exception thrown
ImageEnableIndex(img, options) ==
    LET i1 == [img EXCEPT !.indexEnabled = JBool(TRUE)]
        i2 == IF options.embModel # JUndef
              THEN [i1 EXCEPT !.embModel = options.embModel] ELSE i1
        i3 == IF options.visionModel # JUndef
              THEN [i2 EXCEPT !.visionModel = options.visionModel] ELSE i2
        i4 == SetChunkingOptions(i3, options)
    IN
    IF ~ImageIsValidMimeType(img.mimeType)
    THEN [obj |-> i1, ret |-> Throw("Error", ImageMimeMessage(img.mimeType))]
    ELSE IF options.embModel # JUndef /\ ~ImageIsValidEmbModel(options.embModel)
    THEN [obj |-> i1, ret |-> Throw("Error", ImageEmbModelMessage(options.embModel))]
    ELSE IF options.visionModel # JUndef /\ ~ImageIsValidVisionModel(options.visionModel)
    THEN [obj |-> i2, ret |-> Throw("Error", ImageVisionModelMessage(options.visionModel))]
    ELSE [obj |-> i4, ret |-> i4]

\* a faulty variant of _serialize: the payload is never written
ImageSerializeWithoutData(img) ==
    LET r0 == <<Entry("mime_type", img.mimeType), Entry("index", img.indexEnabled)>>
        r1 == PutIfNotNull(r0, "emb_model", img.embModel)
        r2 == PutIfNotNull(r1, "vision_model", img.visionModel)
        r3 == PutIfNotNull(r2, "max_chunk_size", img.maxChunkSize)
        r4 == PutIfNotNull(r3, "chunk_overlap", img.chunkOverlap)
        r5 == PutIfNotNull(r4, "is_separator_regex", img.isSeparatorRegex)
        r6 == PutIfNotNull(r5, "separators", img.separators)
        r7 == PutIfNotNull(r6, "keep_separator", img.keepSeparator)
    IN JMap(<<Entry("xImage", JMap(Put(r7, "chunks", img.chunks)))>>)
\* img._serialize()
ImageSerialize(img) ==
    LET r0 == <<Entry("mime_type", img.mimeType), Entry("index", img.indexEnabled)>>
        r1 == PutIfNotNull(r0, "emb_model", img.embModel)
        r2 == PutIfNotNull(r1, "vision_model", img.visionModel)
        r3 == PutIfNotNull(r2, "max_chunk_size", img.maxChunkSize)
        r4 == PutIfNotNull(r3, "chunk_overlap", img.chunkOverlap)
        r5 == PutIfNotNull(r4, "is_separator_regex", img.isSeparatorRegex)
        r6 == PutIfNotNull(r5, "separators", img.separators)
        r7 == PutIfNotNull(r6, "keep_separator", img.keepSeparator)
        r8 == Put(r7, "chunks", img.chunks)
        r9 == IF img.data.k = "string" THEN Put(r8, "data", img.data) ELSE r8
    IN JMap(<<Entry("xImage", JMap(r9))>>)

\* Image._deserialize(data), data an object
ImageDeserialize(data) ==
    LET Chunks(instance, d) ==
            IF HasKey(d, "chunks")
            THEN [instance EXCEPT !.chunks = OrElse(Get(d, "chunks"), JArr(<<>>))]
            ELSE instance
        Restore(instance, d) ==
            IF IsThrow(instance) THEN instance
            ELSE Chunks(
                   SetIfPresent(
                     SetIfPresent(
                       SetIfPresent(
                         SetIfPresent(
                           SetIfPresent(
                             SetIfPresent(
                               SetIfPresent(
                                 [instance EXCEPT
                                    !.mimeType = Get(d, "mime_type"),
                                    !.indexEnabled = OrElse(Get(d, "index"), JBool(FALSE))],
                                 "embModel", d, "emb_model"),
                               "visionModel", d, "vision_model"),
                             "maxChunkSize", d, "max_chunk_size"),
                           "chunkOverlap", d, "chunk_overlap"),
                         "isSeparatorRegex", d, "is_separator_regex"),
                       "separators", d, "separators"),
                     "keepSeparator", d, "keep_separator"),
                   d)
        Fields(d) ==
            IF ~HasKey(d, "mime_type")
            THEN Throw("Error", "JSON data must include 'mime_type' under 'xImage'.")
            ELSE Restore(ImageNew(OrElse(Get(d, "data"), JStr(""))), d)
        Unwrapped(inner) ==
            IF inner.k \notin {"object", "array"}
            THEN Throw("TypeError", "Cannot use 'in' operator to search for 'mime_type' in "
                       \o Interp(inner))
            ELSE Fields(PropsOf(inner))
    IN Unwrapped(IF HasKey(data.ent, "xImage") THEN Get(data.ent, "xImage") ELSE data)

(***************************************************************************)
(* EmbImage (embJson/embImage), the earlier image type                     *)
(***************************************************************************)
\* a faulty variant of the constructor: the mime type is not validated
EmbImageNewAnyMime(data, chunks, embModel, visionModel, mimeType) ==
    IF ~(data.k = "string" /\ Len(Trim(data.s)) > 0)
    THEN Throw("Error", "Invalid data: must be a non-empty string containing valid "
               \o "base64-encoded image data.")
    ELSE [k |-> "EmbImage", data |-> data, mimeType |-> mimeType, chunks |-> chunks,
          embModel |-> embModel, visionModel |-> visionModel]
\* new EmbImage(data, chunks, embModel, visionModel, mimeType), the chunking
\* parameters left at their defaults: the instance, or the exception thrown
EmbImageNew(data, chunks, embModel, visionModel, mimeType) ==
    LET SUPPORTED_EMB_MODELS ==
            <<"text-embedding-3-small", "text-embedding-3-large", "text-embedding-ada-002">>
        SUPPORTED_VISION_MODELS == <<"gpt-4o-mini", "gpt-4o", "gpt-4-turbo", "o1">>
        \* isValidData: Buffer.from(data, "base64") does not throw on any string
        isValidData == data.k = "string" /\ Len(Trim(data.s)) > 0
    IN
    IF ~isValidData
    THEN Throw("Error", "Invalid data: must be a non-empty string containing valid "
               \o "base64-encoded image data.")
    ELSE IF ~Includes(SUPPORTED_MIME_TYPES, mimeType)
    THEN Throw("Error", "Unsupported mime type: '" \o Interp(mimeType)
               \o "'. Supported types are: " \o Join(SUPPORTED_MIME_TYPES))
    ELSE IF embModel # JNull /\ ~Includes(SUPPORTED_EMB_MODELS, embModel)
    THEN Throw("Error", "Invalid embedding model: '" \o Interp(embModel)
               \o "' is not supported. Supported models are: " \o Join(SUPPORTED_EMB_MODELS))
    ELSE IF visionModel # JNull /\ ~Includes(SUPPORTED_VISION_MODELS, visionModel)
    THEN Throw("Error", "Invalid vision model: '" \o Interp(visionModel)
               \o "' is not supported. Supported models are: "
               \o Join(SUPPORTED_VISION_MODELS))
    ELSE [k |-> "EmbImage", data |-> data, mimeType |-> mimeType, chunks |-> chunks,
          embModel |-> embModel, visionModel |-> visionModel]

(***************************************************************************)
(* EmbText (embJson/embText), the earlier text type                        *)
(***************************************************************************)
\* new EmbText(text), the other parameters at their defaults: an instance
\* of a class the codec table of Collection does not know
EmbTextNew(text) ==
    IF ~(text.k = "string" /\ Len(Trim(text.s)) > 0)
    THEN Throw("Error", "Invalid text: must be a non-empty string.")
    ELSE [k |-> "instance", ctor |-> "EmbText",
          ent |-> <<Entry("text", text), Entry("chunks", JArr(<<>>)),
                    Entry("embModel", JStr("text-embedding-3-small")),
                    Entry("maxChunkSize", JNum(200)), Entry("chunkOverlap", JNum(20)),
                    Entry("isSeparatorRegex", JBool(FALSE)), Entry("separators", JNull),
                    Entry("keepSeparator", JBool(FALSE))>>]
\* value instanceof EmbText
IsEmbText(value) == value.k = "instance" /\ value.ctor = "EmbText"
\* embText.toJSON()
EmbTextToJSON(t) ==
    JMap(<<Entry("@embText",
             JMap(<<Entry("text", Get(t.ent, "text")), Entry("chunks", Get(t.ent, "chunks")),
                    Entry("emb_model", Get(t.ent, "embModel")),
                    Entry("max_chunk_size", Get(t.ent, "maxChunkSize")),
                    Entry("chunk_overlap", Get(t.ent, "chunkOverlap")),
                    Entry("is_separator_regex", Get(t.ent, "isSeparatorRegex")),
                    Entry("separators", Get(t.ent, "separators")),
                    Entry("keep_separator", Get(t.ent, "keepSeparator"))>>))>>)

(***************************************************************************)
(* Extended scalar types (bson) and the codec table                        *)
(***************************************************************************)
HexChars == "0123456789abcdef"
\* Binary.toString("hex")
RECURSIVE HexEncode(_)
HexEncode(bytes) ==
    IF bytes = <<>> THEN ""
    ELSE CharAt(HexChars, (bytes[1] \div 16) + 1) \o CharAt(HexChars, (bytes[1] % 16) + 1)
         \o HexEncode(Tail(bytes))
\* Buffer.from(s, "hex"): decoding stops at the first pair that is not hex
RECURSIVE HexDecode(_)
HexDecode(s) ==
    LET hi == IndexIn(HexChars, ToLowerCase(CharAt(s, 1)))
        lo == IndexIn(HexChars, ToLowerCase(CharAt(s, 2)))
    IN IF Len(s) < 2 \/ hi = 0 \/ lo = 0 THEN <<>>
       ELSE <<(hi - 1) * 16 + (lo - 1)>> \o HexDecode(SubSeq(s, 3, Len(s)))

\* Date.prototype.toISOString and its inverse for the instants of the model
IsoStrings ==
    [ms \in {0, 1000} |->
        IF ms = 0 THEN "1970-01-01T00:00:00.000Z" ELSE "1970-01-01T00:00:01.000Z"]
\* new Date(arg): an unparseable argument gives the invalid date
DateNew(arg) ==
    IF arg.k = "string" /\ \E ms \in DOMAIN IsoStrings : IsoStrings[ms] = arg.s
    THEN [k |-> "Date", valid |-> TRUE,
          ms |-> CHOOSE ms \in DOMAIN IsoStrings : IsoStrings[ms] = arg.s]
    ELSE IF arg.k = "number" THEN [k |-> "Date", valid |-> TRUE, ms |-> arg.n]
    ELSE [k |-> "Date", valid |-> FALSE, ms |-> 0]
DateToISOString(v) ==
    IF v.valid /\ v.ms \in DOMAIN IsoStrings THEN JStr(IsoStrings[v.ms])
    ELSE Throw("RangeError", "Invalid time value")

\* new ObjectId(arg), arg the 24 digit hex string of a wire object
ObjectIdNew(arg) ==
    IF /\ arg.k = "string"
       /\ Len(arg.s) = 24
       /\ \A i \in 1..24 : IndexIn(HexChars, ToLowerCase(CharAt(arg.s, i))) > 0
    THEN [k |-> "ObjectId", hex |-> ToLowerCase(arg.s)]
    ELSE Throw("BSONError", "input must be a 24 character hex string, 12 byte "
               \o "Uint8Array, or an integer")

\* new Decimal128(arg), arg a plain decimal numeral
Decimal128New(arg) ==
    IF /\ arg.k = "string"
       /\ arg.s # ""
       /\ \A i \in 1..Len(arg.s) : IndexIn("0123456789.-", CharAt(arg.s, i)) > 0
    THEN [k |-> "Decimal128", str |-> arg.s]
    ELSE Throw("BSONError", Interp(arg) \o " not a valid Decimal128 string")

\* new Binary(Buffer.from(arg, "hex"))
BinaryNew(arg) ==
    IF arg.k = "string" THEN [k |-> "Binary", bytes |-> HexDecode(arg.s)]
    ELSE Throw("TypeError", "The first argument must be of type string or an instance "
               \o "of Buffer, ArrayBuffer, or Array or an Array-like Object.")

\* new RegExp(source, options ?? "")
RegExpNew(source, options) ==
    LET flags == IF options \in {JNull, JUndef} THEN JStr("") ELSE options IN
    IF /\ flags.k = "string"
       /\ \A i \in 1..Len(flags.s) : IndexIn("dgimsuvy", CharAt(flags.s, i)) > 0
       /\ \A i, j \in 1..Len(flags.s) : CharAt(flags.s, i) = CharAt(flags.s, j) => i = j
    THEN [k |-> "RegExp", source |-> Interp(source), flags |-> flags.s]
    ELSE Throw("SyntaxError", "Invalid flags supplied to RegExp constructor '"
               \o Interp(flags) \o "'")

\* new Code(arg): the constructor keeps arg.toString()
CodeNew(arg) ==
    IF arg \in {JNull, JUndef}
    THEN Throw("TypeError", "Cannot read properties of " \o arg.k \o " (reading 'toString')")
    ELSE [k |-> "Code", code |-> Interp(arg)]
\* Code defines no toString of its own: the call reaches Object.prototype.toString
CodeToString(v) == JStr("[object Object]")

\* Timestamp.fromBits(lowBits, highBits), called with ($timestamp.t, $timestamp.i)
TimestampFromBits(lowBits, highBits) ==
    [k |-> "Timestamp",
     high |-> IF highBits.k = "number" THEN highBits.n ELSE 0,
     low |-> IF lowBits.k = "number" THEN lowBits.n ELSE 0]

\* value.constructor.name
ConstructorName(value) ==
    CASE value.k = "object" -> "Object"
      [] value.k = "instance" -> value.ctor
      [] value.k = "function" -> "Function"
      [] value.k = "symbol" -> "Symbol"
      [] value.k = "bigint" -> "BigInt"
      [] value.k \in BinaryKinds -> value.k
      [] OTHER -> value.k

\* typeof value
TypeOf(value) ==
    CASE value.k \in {"undefined", "boolean", "number", "string", "function", "symbol",
                      "bigint"} -> value.k
      [] OTHER -> "object"

SerializerNames ==
    {"Text", "Image", "ObjectId", "Date", "Decimal128", "Binary", "RegExp", "Code",
     "Timestamp", "MinKey", "MaxKey"}

\* BSON_SERIALIZERS[name](v), for a name of the table
BSON_SERIALIZERS(name, v) ==
    LET Tag(key, val) == IF IsThrow(val) THEN val ELSE JMap(<<Entry(key, val)>>)
        Missing(method) == Throw("TypeError", "v." \o method \o " is not a function")
    IN
    CASE name = "Text" -> IF v.k = "Text" THEN TextSerialize(v) ELSE Missing("_serialize")
      [] name = "Image" -> IF v.k = "Image" THEN ImageSerialize(v) ELSE Missing("_serialize")
      [] name = "ObjectId" ->
            IF v.k = "ObjectId" THEN Tag("$oid", JStr(v.hex))
            ELSE Tag("$oid", JStr("[object Object]"))
      [] name = "Date" ->
            IF v.k = "Date" THEN Tag("$date", DateToISOString(v)) ELSE Missing("toISOString")
      [] name = "Decimal128" ->
            IF v.k = "Decimal128" THEN Tag("$numberDecimal", JStr(v.str))
            ELSE Tag("$numberDecimal", JStr("[object Object]"))
      [] name = "Binary" ->
            IF v.k = "Binary" THEN Tag("$binary", JStr(HexEncode(v.bytes)))
            ELSE Tag("$binary", JStr("[object Object]"))
      [] name = "RegExp" ->
            IF v.k = "RegExp"
            THEN JMap(<<Entry("$regex", JStr(v.source)), Entry("$options", JStr(v.flags))>>)
            ELSE JMap(<<Entry("$regex", JUndef), Entry("$options", JUndef)>>)
      [] name = "Code" -> Tag("$code", CodeToString(v))
      [] name = "Timestamp" ->
            IF v.k = "Timestamp"
            THEN Tag("$timestamp", JMap(<<Entry("t", JNum(v.high)), Entry("i", JNum(v.low))>>))
            ELSE Missing("getHighBits")
      [] name = "MinKey" -> JMap(<<Entry("$minKey", JNum(1))>>)
      [] name = "MaxKey" -> JMap(<<Entry("$maxKey", JNum(1))>>)

(***************************************************************************)
(* Document walker (client/Collection)                                     *)
(***************************************************************************)
MaxDepth == 100
\* a faulty variant of the depth test: depth 100 is refused already
TooDeepAtLimit(depth) == depth >= MaxDepth
\* if (depth > 100) throw ...
TooDeep(depth) == depth > MaxDepth
Primitives == {"null", "undefined", "boolean", "number", "string"}
\* the own enumerable properties Object.entries(value) lists
OwnEntries(value) == IF value.k \in {"object", "instance"} THEN value.ent ELSE <<>>

\* the result of a loop over child results: the exception of the first child
\* that throws, which ends the loop, or else the container built from them
FirstThrowOr(results, built) ==
    LET thrown == {i \in 1..Len(results) : IsThrow(results[i])} IN
    IF thrown = {} THEN built
    ELSE results[CHOOSE i \in thrown : \A j \in thrown : i <= j]
\* the object a loop over entries builds from the converted values
WithValues(ent, results) ==
    JMap([i \in 1..Len(ent) |-> Entry(ent[i].key, results[i])])

SerializeDepthError == Throw("Error", "Too much nesting or circular structure in serialize()")
RECURSIVE Serialize(_, _, _)
\* this.serialize(value, depth); root is the object a self reference denotes.
\* A self reference is the call serialize(root, depth) again: the walk comes
\* back to it one round deeper each time, so it ends with the depth guard.
\* The containers of a run are visited at depth, depth + 1, ..., and the
\* value inside at depth + levels.
Serialize(value, depth, root) ==
    CASE TooDeep(depth) -> SerializeDepthError
      [] ~TooDeep(depth) /\ value.k \in Primitives -> value
      [] ~TooDeep(depth) /\ value.k = "ref" ->
            IF \E d \in depth..(MaxDepth + 1) : TooDeep(d) THEN SerializeDepthError ELSE JRef
      [] ~TooDeep(depth) /\ value.k = "nest" ->
            LET r == Serialize(value.inner, depth + value.levels, root) IN
            IF TooDeep(depth + value.levels - 1) THEN SerializeDepthError
            ELSE IF IsThrow(r) THEN r ELSE [value EXCEPT !.inner = r]
      [] ~TooDeep(depth) /\ value.k = "array" ->
            LET results == [i \in 1..Len(value.items) |->
                               Serialize(value.items[i], depth + 1, root)]
            IN FirstThrowOr(results, JArr(results))
      [] ~TooDeep(depth) /\ value.k = "Text" -> TextSerialize(value)
      [] ~TooDeep(depth) /\ value.k = "Image" -> ImageSerialize(value)
      [] OTHER ->
            IF ConstructorName(value) \in SerializerNames
            THEN BSON_SERIALIZERS(ConstructorName(value), value)
            ELSE IF TypeOf(value) = "object"
            THEN LET ent == OwnEntries(value)
                     results == [i \in 1..Len(ent) |-> Serialize(ent[i].val, depth + 1, root)]
                 IN FirstThrowOr(results, WithValues(ent, results))
            ELSE Throw("TypeError", "Unsupported BSON type: " \o TypeOf(value))

\* a faulty order of the tests: $code is looked for before $regex
MarkersCodeFirst ==
    <<"xText", "xImage", "$oid", "$date", "$numberDecimal", "$binary", "$code", "$regex",
      "$timestamp", "$minKey", "$maxKey">>
\* the marker keys, in the order deserialize tests them
Markers ==
    <<"xText", "xImage", "$oid", "$date", "$numberDecimal", "$binary", "$regex", "$code",
      "$timestamp", "$minKey", "$maxKey">>
\* the first marker of the list that is a key of the object; 0 if none is
FirstMarker(ent) ==
    LET present == {i \in 1..Len(Markers) : HasKey(ent, Markers[i])} IN
    IF present = {} THEN 0 ELSE CHOOSE i \in present : \A j \in present : i <= j

\* the decoder of one marker applied to the wire object
DecodeMarker(marker, obj) ==
    CASE marker = "xText" -> TextDeserialize(obj)
      [] marker = "xImage" -> ImageDeserialize(obj)
      [] marker = "$oid" -> ObjectIdNew(Get(obj.ent, "$oid"))
      [] marker = "$date" -> DateNew(Get(obj.ent, "$date"))
      [] marker = "$numberDecimal" -> Decimal128New(Get(obj.ent, "$numberDecimal"))
      [] marker = "$binary" -> BinaryNew(Get(obj.ent, "$binary"))
      [] marker = "$regex" -> RegExpNew(Get(obj.ent, "$regex"), Get(obj.ent, "$options"))
      [] marker = "$code" -> CodeNew(Get(obj.ent, "$code"))
      [] marker = "$timestamp" ->
            LET ts == Get(obj.ent, "$timestamp") IN
            IF ts \in {JNull, JUndef}
            THEN Throw("TypeError", "Cannot read properties of " \o ts.k \o " (reading 't')")
            ELSE TimestampFromBits(Get(PropsOf(ts), "t"), Get(PropsOf(ts), "i"))
      [] marker = "$minKey" -> [k |-> "MinKey"]
      [] marker = "$maxKey" -> [k |-> "MaxKey"]

DeserializeDepthError ==
    Throw("Error", "Too much nesting or circular structure in deserialize()")
RECURSIVE Deserialize(_, _, _)
\* this.deserialize(value, depth), value a tree of parsed JSON
Deserialize(value, depth, root) ==
    CASE TooDeep(depth) -> DeserializeDepthError
      [] ~TooDeep(depth) /\ value.k \in Primitives -> value
      [] ~TooDeep(depth) /\ value.k = "ref" ->
            IF \E d \in depth..(MaxDepth + 1) : TooDeep(d) THEN DeserializeDepthError ELSE JRef
      [] ~TooDeep(depth) /\ value.k = "nest" ->
            LET r == Deserialize(value.inner, depth + value.levels, root) IN
            IF TooDeep(depth + value.levels - 1) THEN DeserializeDepthError
            ELSE IF IsThrow(r) THEN r ELSE [value EXCEPT !.inner = r]
      [] ~TooDeep(depth) /\ value.k = "array" ->
            LET results == [i \in 1..Len(value.items) |->
                               Deserialize(value.items[i], depth + 1, root)]
            IN FirstThrowOr(results, JArr(results))
      [] OTHER ->
            LET obj == JMap(OwnEntries(value))
                m == FirstMarker(obj.ent)
                results == [i \in 1..Len(obj.ent) |->
                               Deserialize(obj.ent[i].val, depth + 1, root)]
            IN IF m > 0 THEN DecodeMarker(Markers[m], obj)
               ELSE FirstThrowOr(results, WithValues(obj.ent, results))

(***************************************************************************)
(* Binary extraction pass (client/Collection)                              *)
(***************************************************************************)
\* the Blob extractFromValue stores for a binary payload
ToBlob(binaryData) ==
    IF binaryData.k \in {"Blob", "File"} THEN binaryData
    ELSE IF binaryData.k \in {"ArrayBuffer", "Uint8Array"}
         THEN [k |-> "Blob", type |-> "", bytes |-> binaryData.bytes]
    ELSE JNull

\* a faulty variant of FieldName: the location of the field is left out
FieldNameWithoutPath(docIndex, path) == "doc_" \o ToString(docIndex) \o ".xImage.data"
\* the key of a side-table entry: doc_{index}.{field_path}.xImage.data
FieldName(docIndex, path) ==
    IF path # "" THEN "doc_" \o ToString(docIndex) \o "." \o path \o ".xImage.data"
    ELSE "doc_" \o ToString(docIndex) \o ".xImage.data"

\* the string s, n times over
RECURSIVE Repeat(_, _)
Repeat(s, n) ==
    IF n <= 0 THEN ""
    ELSE IF n % 2 = 0 THEN LET half == Repeat(s, n \div 2) IN half \o half
    ELSE s \o Repeat(s, n - 1)

RECURSIVE ExtractFromValue(_, _, _, _, _)
RECURSIVE ExtractFromItems(_, _, _, _, _, _)
RECURSIVE ExtractFromEntries(_, _, _, _, _, _)
ExtractFromItems(items, i, docIndex, path, root, files) ==
    IF i > Len(items) THEN files
    ELSE LET newPath == IF path # "" THEN path \o "." \o ToString(i - 1) ELSE ToString(i - 1)
             r == ExtractFromValue(items[i], docIndex, newPath, root, files)
         IN IF IsThrow(r) THEN r
            ELSE ExtractFromItems(items, i + 1, docIndex, path, root, r)
ExtractFromEntries(ent, i, docIndex, path, root, files) ==
    IF i > Len(ent) THEN files
    ELSE LET newPath == IF path # "" THEN path \o "." \o ent[i].key ELSE ent[i].key
             r == ExtractFromValue(ent[i].val, docIndex, newPath, root, files)
         IN IF IsThrow(r) THEN r
            ELSE ExtractFromEntries(ent, i + 1, docIndex, path, root, r)
\* extractFromValue(value, docIndex, path): the object `files` after the
\* call, or the exception it throws.  The walk has no depth limit: on a self
\* reference it recurses until the call stack is exhausted.
ExtractFromValue(value, docIndex, path, root, files) ==
    IF value.k = "Image" /\ ImageHasBinaryData(value) THEN
        LET binaryData == ImageGetBinaryData(value)
            blob == IF binaryData # JNull THEN ToBlob(binaryData) ELSE JNull
        IN IF blob # JNull THEN JMap(Put(files.ent, FieldName(docIndex, path), blob)) ELSE files
    ELSE IF value.k = "ref" THEN Throw("RangeError", "Maximum call stack size exceeded")
    ELSE IF value.k = "nest" THEN
        LET step == IF value.of = "array" THEN "0" ELSE NestKey
            run == Repeat("." \o step, value.levels - 1)
            newPath == IF path # "" THEN path \o "." \o step \o run ELSE step \o run
        IN ExtractFromValue(value.inner, docIndex, newPath, root, files)
    ELSE IF value.k = "array" THEN ExtractFromItems(value.items, 1, docIndex, path, root, files)
    ELSE IF TypeOf(value) = "object" /\ value.k # "null"
         THEN ExtractFromEntries(OwnEntries(value), 1, docIndex, path, root, files)
    ELSE files

\* a faulty variant of the loop over the documents: every document is
\* extracted under index 0
RECURSIVE ExtractDocumentsAtZero(_, _, _)
ExtractDocumentsAtZero(documents, i, files) ==
    IF i > Len(documents) THEN files
    ELSE LET r == ExtractFromValue(documents[i], 0, "", documents[i], files) IN
         IF IsThrow(r) THEN r ELSE ExtractDocumentsAtZero(documents, i + 1, r)
\* for (docIndex = 0; ...) await extractFromValue(documents[docIndex], docIndex)
RECURSIVE ExtractDocuments(_, _, _)
ExtractDocuments(documents, i, files) ==
    IF i > Len(documents) THEN files
    ELSE LET r == ExtractFromValue(documents[i], i - 1, "", documents[i], files) IN
         IF IsThrow(r) THEN r ELSE ExtractDocuments(documents, i + 1, r)
\* this.extractBinaryData(documents): the side table, or the exception the
\* returned promise is rejected with
ExtractBinaryData(documents) == ExtractDocuments(documents, 1, JMap(<<>>))

(***************************************************************************)
(* Requests and responses (client/Collection)                              *)
(***************************************************************************)
\* Array.isArray(value)
IsArray(value) == value.k = "array" \/ (value.k = "nest" /\ value.of = "array")
\* Object.keys(value).length, for a value that is an object
KeyCount(value) ==
    CASE value.k = "array" -> Len(value.items)
      [] value.k = "nest" -> 1
      [] value.k = "ref" -> 1
      [] value.k = "Text" -> 9
      [] value.k = "Image" -> 11
      [] OTHER -> Len(OwnEntries(value))
\* value[name] for a value that is not null or undefined
Prop(value, name) == Get(PropsOf(value), name)
\* a ?? b
Nullish(a, b) == IF a \in {JNull, JUndef} THEN b ELSE a

\* JSON.stringify(value), held as the JSON tree the text denotes: a property
\* whose value is undefined or a function is dropped, such an array element
\* becomes null; undefined itself gives undefined; a value with a toJSON
\* method is printed as what the method returns
Unprintable == {"undefined", "function", "symbol"}
RECURSIVE JsonStringify(_)
JsonStringify(value) ==
    CASE value.k \in Unprintable -> JUndef
      [] IsEmbText(value) -> EmbTextToJSON(value)
      [] value.k = "array" ->
            JArr([i \in 1..Len(value.items) |->
                    IF value.items[i].k \in Unprintable THEN JNull
                    ELSE JsonStringify(value.items[i])])
      [] value.k = "nest" ->
            IF value.inner.k \notin Unprintable
            THEN [value EXCEPT !.inner = JsonStringify(value.inner)]
            ELSE IF value.of = "array" THEN [value EXCEPT !.inner = JNull]
            ELSE IF value.levels = 1 THEN JMap(<<>>)
            ELSE [value EXCEPT !.levels = @ - 1, !.inner = JMap(<<>>)]
      [] value.k = "object" ->
            LET kept == SelectSeq(value.ent, LAMBDA e : e.val.k \notin Unprintable) IN
            JMap([i \in 1..Len(kept) |-> Entry(kept[i].key, JsonStringify(kept[i].val))])
      [] OTHER -> value

CollectionUrl == "https://api.onenode.ai/v0/project/p1/db/db1/collection/c1"
DocumentUrl == CollectionUrl \o "/document"
Headers == <<Entry("Authorization", "Bearer key1")>>
\* fetch(url, {method, headers, body: formData}) as the request it sends
Request(url, method, form) == [url |-> url, method |-> method, headers |-> Headers, form |-> form]
\* for (const [fieldName, blob] of Object.entries(binaryFiles)) formData.append(...)
AppendFiles(form, binaryFiles) == form \o binaryFiles.ent

\* a response of the server: body.json is false when the body is not JSON
Response(ok, status, statusText, body) ==
    [ok |-> ok, status |-> status, statusText |-> statusText, body |-> body]
JsonBody(v) == [json |-> TRUE, v |-> v]
NoJsonBody == [json |-> FALSE]

\* a faulty variant of handleResponse: the code in the body is not looked at
HandleResponseByStatus(response) ==
    LET fallback == ThrowStatus("APIClientError", JNum(response.status), response.statusText)
    IN
    IF ~response.body.json THEN fallback
    ELSE IF ~response.ok THEN
        LET errorData == response.body.v
            code == JNum(response.status)
            message == Nullish(Prop(errorData, "message"), JStr("An unknown error occurred."))
        IN IF errorData \in {JNull, JUndef} THEN fallback
           ELSE IF code = JNum(401) THEN ThrowStatus("AuthenticationError", code, Interp(message))
           ELSE IF code.k = "number" /\ code.n >= 400 /\ code.n < 500
                THEN ThrowStatus("ClientRequestError", code, Interp(message))
           ELSE ThrowStatus("ServerError", code, Interp(message))
    ELSE LET Decoded(r) == IF IsThrow(r) THEN fallback ELSE r
         IN Decoded(Deserialize(response.body.v, 0, response.body.v))
\* this.handleResponse(response): the decoded body, or the exception thrown
HandleResponse(response) ==
    LET fallback == ThrowStatus("APIClientError", JNum(response.status), response.statusText)
    IN
    IF ~response.body.json THEN fallback
    ELSE IF ~response.ok THEN
        LET errorData == response.body.v
            code == Nullish(Prop(errorData, "code"), JNum(response.status))
            message == Nullish(Prop(errorData, "message"), JStr("An unknown error occurred."))
        IN IF errorData \in {JNull, JUndef} THEN fallback
           ELSE IF code = JNum(401) THEN ThrowStatus("AuthenticationError", code, Interp(message))
           ELSE IF code.k = "number" /\ code.n >= 400 /\ code.n < 500
                THEN ThrowStatus("ClientRequestError", code, Interp(message))
           ELSE ThrowStatus("ServerError", code, Interp(message))
    ELSE LET Decoded(r) == IF IsThrow(r) THEN fallback ELSE r
         IN Decoded(Deserialize(response.body.v, 0, response.body.v))

\* the outcome of one call of a request method: the stage it got to, the
\* requests fetch was invoked with, and what the caller receives
Call(op, args, stage, sent, out) ==
    [op |-> op, args |-> args, stage |-> stage, sent |-> sent, out |-> out]

\* the message insert gives for documents[i] that is not an object
InvalidDocumentMessage(i, document) ==
    "Invalid document at index " \o ToString(i) \o ". Expected an object, but received "
    \o (IF IsArray(document) THEN "array" ELSE TypeOf(document)) \o ". "
    \o "Each document must be a JSON object."
IsDocumentOrNull(document) ==
    ~(TypeOf(document) # "object" \/ IsArray(document))
IsDocument(document) ==
    ~(TypeOf(document) # "object" \/ document.k = "null" \/ IsArray(document))

\* documents.map((doc) => this.serialize(doc))
SerializeAll(documents) ==
    LET All(results) == FirstThrowOr(results, JArr(results))
    IN All([i \in 1..Len(documents) |-> Serialize(documents[i], 0, documents[i])])

\* collection.insert(documents), the server answering with response
Insert(documents, response) ==
    LET C(stage, sent, out) == Call("insert", <<documents>>, stage, sent, out)
        \* the elements of documents, when it is an array
        items == IF documents.k = "array" THEN documents.items
                 ELSE IF documents.levels > 1 THEN <<[documents EXCEPT !.levels = @ - 1]>>
                 ELSE <<documents.inner>>
    IN
    IF ~IsArray(documents) THEN
        C("validate", <<>>, ThrowStatus("ClientRequestError", JNum(400),
            "'documents' must be an array of objects, but got " \o TypeOf(documents) \o ". "
            \o "If you're trying to insert a single document, wrap it in an array: [document]"))
    ELSE IF Len(items) = 0 THEN
        C("validate", <<>>, ThrowStatus("ClientRequestError", JNum(400),
            "Cannot insert empty array of documents. Provide at least one document."))
    ELSE
    LET invalid == {i \in 1..Len(items) : ~IsDocument(items[i])}
        first == CHOOSE i \in invalid : \A j \in invalid : i <= j
        Send(serializedDocs, binaryFiles) ==
            IF IsThrow(serializedDocs) THEN C("serialize", <<>>, serializedDocs)
            ELSE IF IsThrow(binaryFiles) THEN C("extract", <<>>, binaryFiles)
            ELSE C("fetch",
                   <<Request(DocumentUrl, "POST",
                             AppendFiles(<<Entry("documents", JsonStringify(serializedDocs))>>,
                                         binaryFiles))>>,
                   HandleResponse(response))
    IN
    IF invalid # {} THEN
        C("validate", <<>>, ThrowStatus("ClientRequestError", JNum(400),
            InvalidDocumentMessage(first - 1, items[first])))
    ELSE Send(SerializeAll(items), ExtractBinaryData(items))

\* String(upsert)
BoolString(b) == JStr(IF b THEN "true" ELSE "false")

\* collection.update(filter, update, {upsert})
Update(filter, update, upsert, response) ==
    LET C(stage, sent, out) == Call("update", <<filter, update>>, stage, sent, out)
        Send(binaryFiles, serializedFilter, serializedUpdate) ==
            IF IsThrow(binaryFiles) THEN C("extract", <<>>, binaryFiles)
            ELSE IF IsThrow(serializedFilter) THEN C("serialize", <<>>, serializedFilter)
            ELSE IF IsThrow(serializedUpdate) THEN C("serialize", <<>>, serializedUpdate)
            ELSE C("fetch",
                   <<Request(DocumentUrl, "PUT",
                             AppendFiles(<<Entry("filter", JsonStringify(serializedFilter)),
                                           Entry("update", JsonStringify(serializedUpdate)),
                                           Entry("upsert", BoolString(upsert))>>,
                                         binaryFiles))>>,
                   HandleResponse(response))
    IN Send(ExtractBinaryData(<<update>>), Serialize(filter, 0, filter),
            Serialize(update, 0, update))

\* a faulty variant of delete: the request is made before the filter is
\* serialized
DeleteFetchFirst(filter, response) ==
    LET Send(serializedFilter) ==
            IF IsThrow(serializedFilter)
            THEN Call("delete", <<filter>>, "serialize",
                      <<Request(DocumentUrl, "DELETE", <<>>)>>, serializedFilter)
            ELSE Call("delete", <<filter>>, "fetch",
                      <<Request(DocumentUrl, "DELETE",
                                <<Entry("filter", JsonStringify(serializedFilter))>>)>>,
                      HandleResponse(response))
    IN Send(Serialize(filter, 0, filter))
\* collection.delete(filter)
Delete(filter, response) ==
    LET C(stage, sent, out) == Call("delete", <<filter>>, stage, sent, out)
        Send(serializedFilter) ==
            IF IsThrow(serializedFilter) THEN C("serialize", <<>>, serializedFilter)
            ELSE C("fetch",
                   <<Request(DocumentUrl, "DELETE",
                             <<Entry("filter", JsonStringify(serializedFilter))>>)>>,
                   HandleResponse(response))
    IN Send(Serialize(filter, 0, filter))

\* the options of find and query the caller did not pass are undefined
NoFindOptions == [projection |-> JUndef, sort |-> JUndef, limit |-> JUndef, skip |-> JUndef]
NoQueryOptions ==
    [filter |-> JUndef, projection |-> JUndef, embModel |-> JUndef, topK |-> JUndef,
     includeEmbedding |-> JUndef]
\* if (present) formData.append(name, value)
AppendIf(form, present, name, value) == IF present THEN Append(form, Entry(name, value)) ELSE form

\* collection.find(filter, options)
Find(filter, options, response) ==
    LET C(stage, sent, out) == Call("find", <<filter>>, stage, sent, out)
        hasContent == /\ filter \notin {JNull, JUndef}
                      /\ TypeOf(filter) = "object"
                      /\ KeyCount(filter) > 0
        Form(serializedFilter) ==
            LET f1 == AppendIf(<<>>, hasContent, "filter", JsonStringify(serializedFilter))
                f2 == AppendIf(f1, options.projection # JUndef, "projection",
                               JsonStringify(options.projection))
                f3 == AppendIf(f2, options.sort # JUndef, "sort", JsonStringify(options.sort))
                f4 == AppendIf(f3, options.limit # JUndef, "limit",
                               JStr(Interp(options.limit)))
            IN AppendIf(f4, options.skip # JUndef, "skip", JStr(Interp(options.skip)))
        Send(serializedFilter) ==
            IF IsThrow(serializedFilter) THEN C("serialize", <<>>, serializedFilter)
            ELSE C("fetch",
                   <<Request(CollectionUrl \o "/document/find", "POST",
                             Form(serializedFilter))>>,
                   HandleResponse(response))
    IN Send(IF hasContent THEN Serialize(filter, 0, filter) ELSE JUndef)

\* the tail of query: the matches of the decoded response, an empty chunk
\* replaced by null
QueryMatches(responseData) ==
    LET matches == IF responseData.k = "array" THEN responseData
                   ELSE OrElse(Prop(responseData, "matches"), JArr(<<>>))
        Fix(match) ==
            IF match \in {JNull, JUndef}
            THEN Throw("TypeError", "Cannot read properties of " \o match.k \o " (reading 'chunk')")
            ELSE IF match.k = "object" /\ Get(match.ent, "chunk") = JStr("")
            THEN JMap(Put(match.ent, "chunk", JNull))
            ELSE match
    IN
    IF IsThrow(responseData) THEN responseData
    ELSE IF responseData \in {JNull, JUndef}
    THEN Throw("TypeError", "Cannot read properties of " \o responseData.k
               \o " (reading 'matches')")
    ELSE IF matches.k # "array" THEN Throw("TypeError", "matches.map is not a function")
    ELSE LET results == [i \in 1..Len(matches.items) |-> Fix(matches.items[i])]
         IN FirstThrowOr(results, JArr(results))

\* collection.query(query, options)
Query(query, options, response) ==
    LET C(stage, sent, out) == Call("query", <<options.filter>>, stage, sent, out)
        hasFilter == options.filter \notin {JNull, JUndef}
        Form(serializedFilter) ==
            LET f1 == AppendIf(<<Entry("query", JStr(query))>>, hasFilter, "filter",
                               JsonStringify(serializedFilter))
                f2 == AppendIf(f1, options.projection \notin {JNull, JUndef}, "projection",
                               JsonStringify(options.projection))
                f3 == AppendIf(f2, options.embModel \notin {JNull, JUndef}, "emb_model",
                               options.embModel)
                f4 == AppendIf(f3, options.topK \notin {JNull, JUndef}, "top_k",
                               JStr(Interp(options.topK)))
            IN AppendIf(f4, options.includeEmbedding \notin {JNull, JUndef},
                        "include_embedding", JStr(Interp(options.includeEmbedding)))
        Send(serializedFilter) ==
            IF IsThrow(serializedFilter) THEN C("serialize", <<>>, serializedFilter)
            ELSE C("fetch",
                   <<Request(CollectionUrl \o "/document/query", "POST",
                             Form(serializedFilter))>>,
                   QueryMatches(HandleResponse(response)))
    IN Send(IF hasFilter THEN Serialize(options.filter, 0, options.filter) ELSE JUndef)

\* collection.drop()
Drop(response) ==
    Call("drop", <<>>, "fetch", <<Request(CollectionUrl, "DELETE", <<>>)>>,
         IF response.status = 204 THEN JUndef
         ELSE LET Settled(r) == IF IsThrow(r) THEN r ELSE JUndef
              IN Settled(HandleResponse(response)))

(***************************************************************************)
(* The earlier Collection (client/OneNode), whose documents hold EmbText    *)
(***************************************************************************)
\* this.transformEmbText(document): the walk assigns into the document it is
\* given and returns it, so the value is the document the caller holds after
\* the call; a self reference is left as it is (the walk does not return)
RECURSIVE TransformEmbText(_)
TransformEmbText(document) ==
    LET Each(val) == IF IsEmbText(val) THEN EmbTextToJSON(val)
                     ELSE IF TypeOf(val) = "object" THEN TransformEmbText(val)
                     ELSE val
    IN CASE document.k \in {"object", "instance"} ->
               [document EXCEPT !.ent = [i \in DOMAIN @ |-> Entry(@[i].key, Each(@[i].val))]]
         [] document.k = "array" ->
               [document EXCEPT !.items = [i \in DOMAIN @ |-> Each(@[i])]]
         [] document.k = "nest" -> [document EXCEPT !.inner = Each(@)]
         [] OTHER -> document

\* collection.insertOne(document) of the earlier Collection, the server
\* answering with response: the outcome, and under `document` what the
\* caller's document has become
LegacyInsertOne(document, response) ==
    LET url == "https://api.capybaradb.co/v1/db/p1_db1/collection/c1/document"
        RECURSIVE Cyclic(_)
        Cyclic(value) ==
            CASE value.k = "ref" -> TRUE
              [] value.k = "array" -> \E i \in DOMAIN value.items : Cyclic(value.items[i])
              [] value.k \in {"object", "instance"} ->
                    \E i \in DOMAIN value.ent : Cyclic(value.ent[i].val)
              [] value.k = "nest" -> Cyclic(value.inner)
              [] OTHER -> FALSE
        C(stage, sent, out, after) ==
            [op |-> "insertOne", args |-> <<document>>, stage |-> stage, sent |-> sent,
             out |-> out, document |-> after]
        Sent(transformedDocument) ==
            IF Cyclic(document)
            THEN C("transform", <<>>,
                   Throw("RangeError", "Maximum call stack size exceeded"), transformedDocument)
            ELSE C("fetch",
                   <<[url |-> url, method |-> "POST",
                      headers |-> Headers \o <<Entry("Content-Type", "application/json")>>,
                      body |-> JsonStringify(JMap(<<Entry("documents",
                                                       JArr(<<transformedDocument>>))>>))]>>,
                   IF ~response.ok
                   THEN Throw("Error", "API call failed: " \o response.statusText)
                   ELSE IF ~response.body.json
                   THEN Throw("SyntaxError", "Unexpected end of JSON input")
                   ELSE response.body.v,
                   transformedDocument)
    IN Sent(TransformEmbText(document))

(***************************************************************************)
(* The caller's program: it constructs embeddable fields, configures them, *)
(* builds a document around one, and hands the document to the walker or   *)
(* to a request method of the collection.                                  *)
(***************************************************************************)
VARIABLES
    obj,    \* the Text or Image instance the caller is preparing, or NoObj
    made,   \* the last constructor or enableIndex call: its argument and result
    doc,    \* the document the caller has built
    last    \* the last call made on the document and its outcome

vars == <<obj, made, doc, last>>

NoObj == [k |-> "none"]
NoCall == [call |-> "none", n |-> 0]
Idle == [op |-> "idle"]
EmptyDoc == JMap(<<>>)
\* the number of enableIndex calls followed on one instance
MaxEnable == 2

PngBytes == <<137, 80, 78, 71, 13, 10, 26, 10>>
TextArgs ==
    {JStr("hi"), JStr(" hi "), JStr(""), JStr(" \n\t"), JNum(5), JNull, JUndef, JArr(<<>>)}
ImageArgs ==
    {JStr("iVBORw0KGgo="), JStr("SGVsbG8="), JStr("data:image/bmp;base64,QUJD"),
     JStr("data:image/png;base64"), JStr("http://x.io/a.png"),
     JStr("pic.png"), JStr("notes.txt"), JStr(""), JStr("@@"),
     [k |-> "ArrayBuffer", bytes |-> <<1, 2>>],
     [k |-> "Blob", type |-> "image/bmp", bytes |-> <<66, 77>>],
     [k |-> "File", name |-> "a.gif", type |-> "", bytes |-> <<71, 73>>],
     JNum(7), JNull}
IndexOptions ==
    {NoOptions,
     [NoOptions EXCEPT !.embModel = JStr("text-embedding-3-small")],
     [NoOptions EXCEPT !.embModel = JStr("not-a-real-model")],
     [NoOptions EXCEPT !.visionModel = JStr("gpt-4o")],
     [NoOptions EXCEPT !.visionModel = JStr("gpt-5")],
     [NoOptions EXCEPT !.maxChunkSize = JNum(500), !.chunkOverlap = JNum(50),
                       !.separators = JArr(<<JStr("\n\n")>>), !.keepSeparator = JBool(FALSE),
                       !.isSeparatorRegex = JBool(TRUE)]}

\* leaves a document can hold besides the prepared instance; the instances
\* named ObjectId and MinKey are of classes the caller has declared, not of
\* the bson classes
PlainLeaves ==
    {JStr("x"), JNum(7), JNull,
     [k |-> "ObjectId", hex |-> "0123456789abcdef01234567"],
     [k |-> "Date", valid |-> TRUE, ms |-> 1000],
     [k |-> "Decimal128", str |-> "1.5"],
     [k |-> "Binary", bytes |-> <<1, 255>>],
     [k |-> "RegExp", source |-> "ab+", flags |-> "gi"],
     [k |-> "MinKey"], [k |-> "MaxKey"],
     [k |-> "Timestamp", high |-> 1, low |-> 2],
     [k |-> "Code", code |-> "f()"],
     [k |-> "function"], [k |-> "symbol"], [k |-> "bigint"],
     [k |-> "instance", ctor |-> "Map", ent |-> <<>>],
     [k |-> "instance", ctor |-> "ObjectId", ent |-> <<>>],
     [k |-> "instance", ctor |-> "MinKey", ent |-> <<Entry("level", JNum(3))>>],
     EmbTextNew(JStr("hi"))}
\* wire objects a response of the server can hold; the last ones carry two
\* markers, the later of the decoder's order written first, or a marker
\* beside a plain key
WireLeaves ==
    LET samples ==
            <<Entry("xText", JMap(<<Entry("text", JStr("hi"))>>)),
              Entry("xImage", JMap(<<Entry("mime_type", JStr("image/png")),
                                     Entry("data", JStr("http://x.io/a.png"))>>)),
              Entry("$oid", JStr("0123456789abcdef01234567")),
              Entry("$date", JNum(1000)),
              Entry("$numberDecimal", JStr("1.5")),
              Entry("$binary", JStr("01ff")),
              Entry("$regex", JStr("ab+")),
              Entry("$code", JStr("f()")),
              Entry("$timestamp", JMap(<<Entry("t", JNum(1)), Entry("i", JNum(2))>>)),
              Entry("$minKey", JNum(1)),
              Entry("$maxKey", JNum(1))>>
    IN
    {JMap(<<samples[i + 1], samples[i]>>) : i \in 1..(Len(samples) - 1)}
    \cup
    {JMap(<<Entry("name", JStr("x")), Entry("$maxKey", JNum(1))>>),
     JMap(<<Entry("xText", JMap(<<Entry("text", JStr("hi")),
                Entry("chunks", JArr(<<JStr("hi")>>)), Entry("index", JBool(TRUE))>>))>>),
     JMap(<<Entry("xText", JMap(<<Entry("text", JStr("hi")), Entry("index", JBool(TRUE)),
                Entry("emb_model", JStr("old-model"))>>))>>),
     JMap(<<Entry("xText", JMap(<<Entry("text", JStr("hi")), Entry("index", JBool(FALSE)),
                Entry("emb_model", JStr("old-model"))>>))>>),
     JMap(<<Entry("xText", JMap(<<Entry("chunks", JArr(<<>>))>>))>>),
     JMap(<<Entry("xImage", JMap(<<Entry("mime_type", JStr("image/png")),
                Entry("index", JBool(TRUE)), Entry("data", JStr("http://x.io/a.png")),
                Entry("emb_model", JStr("old-model")), Entry("vision_model", JStr("old-vision")),
                Entry("chunks", JArr(<<JStr("a cat")>>))>>))>>),
     JMap(<<Entry("xImage", JMap(<<Entry("mime_type", JStr("image/png")),
                Entry("index", JBool(FALSE))>>))>>),
     JMap(<<Entry("xImage", JMap(<<Entry("data", JStr("http://x.io/a.png")),
                Entry("index", JBool(FALSE))>>))>>),
     JMap(<<Entry("xImage", JMap(<<Entry("mime_type", JStr("image/png")),
                Entry("index", JBool(FALSE)), Entry("data", JStr("SGVsbG8=")),
                Entry("chunks", JArr(<<JStr("a dog"), JStr("a ball")>>))>>))>>),
     JMap(<<Entry("$timestamp", JMap(<<Entry("t", JNum(1)), Entry("i", JNum(2))>>))>>),
     JMap(<<Entry("$oid", JStr("xyz"))>>)}
\* the nesting depths a deep document puts its leaf at
NestLevels == {MaxDepth, MaxDepth + 1}
Shapes ==
    {[shape |-> s, levels |-> 0] : s \in {"root", "field", "array", "pair", "cycle", "dotted"}}
    \cup {[shape |-> s, levels |-> n] : s \in {"object", "array"}, n \in NestLevels}
\* the document of a shape around a leaf
Shape(sh, leaf) ==
    CASE sh.levels > 0 -> JNest(sh.shape, sh.levels, leaf)
      [] sh.levels = 0 /\ sh.shape = "root" -> leaf
      [] sh.levels = 0 /\ sh.shape = "field" ->
            JMap(<<Entry("name", JStr("Alice")), Entry("photo", leaf)>>)
      [] sh.levels = 0 /\ sh.shape = "array" ->
            JMap(<<Entry("items", JArr(<<JNum(7), JMap(<<Entry("v", leaf)>>)>>))>>)
      [] sh.levels = 0 /\ sh.shape = "pair" ->
            JMap(<<Entry("a", leaf), Entry("b", JArr(<<leaf>>))>>)
      [] sh.levels = 0 /\ sh.shape = "cycle" ->
            JMap(<<Entry("photo", leaf), Entry("self", JRef)>>)
      [] sh.levels = 0 /\ sh.shape = "dotted" ->
            JMap(<<Entry("b.0", leaf), Entry("b", JArr(<<leaf>>))>>)

\* the answers of the server
Responses ==
    {Response(TRUE, 200, "OK", JsonBody(JMap(<<Entry("inserted_ids", JArr(<<>>))>>))),
     Response(TRUE, 200, "OK", JsonBody(JArr(<<JMap(<<Entry("chunk", JStr("")),
         Entry("doc", JMap(<<Entry("xText", JMap(<<Entry("text", JStr("hi")),
             Entry("chunks", JArr(<<JStr("hi")>>)), Entry("index", JBool(TRUE))>>))>>))>>)>>))),
     Response(FALSE, 401, "Unauthorized", JsonBody(JMap(<<Entry("message", JStr("no key"))>>)))}

\* further answers: failures with and without a code in the body, at the
\* edges of the 4xx range, without a JSON body, and successes whose body the
\* decoder refuses or that have no JSON body
OtherResponses ==
    {Response(FALSE, 404, "Not Found", JsonBody(JMap(<<Entry("message", JStr("no such doc"))>>))),
     Response(FALSE, 500, "Internal Server Error", JsonBody(JMap(<<>>))),
     Response(FALSE, 500, "Internal Server Error",
              JsonBody(JMap(<<Entry("code", JNum(401)), Entry("message", JStr("expired"))>>))),
     Response(FALSE, 400, "Bad Request",
              JsonBody(JMap(<<Entry("code", JNum(503)), Entry("message", JStr("busy"))>>))),
     Response(FALSE, 404, "Not Found", JsonBody(JMap(<<Entry("code", JNum(400))>>))),
     Response(FALSE, 404, "Not Found", JsonBody(JMap(<<Entry("code", JNum(499))>>))),
     Response(FALSE, 404, "Not Found", JsonBody(JMap(<<Entry("code", JNum(399))>>))),
     Response(FALSE, 502, "Bad Gateway", NoJsonBody),
     Response(TRUE, 200, "OK", JsonBody(JMap(<<Entry("xText", JMap(<<Entry("chunks", JArr(<<>>))>>))>>))),
     Response(TRUE, 200, "OK", JsonBody(JNest("array", MaxDepth + 1, JStr("x")))),
     Response(TRUE, 200, "OK", NoJsonBody)}

Init ==
    /\ obj = NoObj
    /\ made = NoCall
    /\ doc = EmptyDoc
    /\ last = Idle

\* the caller has not yet constructed a field or built the document
Fresh == obj = NoObj /\ made = NoCall /\ doc = EmptyDoc /\ last = Idle

\* t = new Text(text)
NewText(text) ==
    LET r == TextNew(text) IN
    /\ Fresh
    /\ obj' = IF IsThrow(r) THEN NoObj ELSE r
    /\ made' = [call |-> "Text", n |-> 0, on |-> NoObj, arg |-> text, ret |-> r]
    /\ doc' = EmptyDoc
    /\ last' = Idle

\* img = new Image(data)
NewImage(data) ==
    LET r == ImageNew(data) IN
    /\ Fresh
    /\ obj' = IF IsThrow(r) THEN NoObj ELSE r
    /\ made' = [call |-> "Image", n |-> 0, on |-> NoObj, arg |-> data, ret |-> r]
    /\ doc' = EmptyDoc
    /\ last' = Idle

\* the arguments of new EmbImage the caller passes
EmbImageArgs ==
    [data : {JStr("SGVsbG8gV29ybGQ="), JStr(" ")},
     embModel : {JNull, JStr("text-embedding-3-small"), JStr("not-a-real-model")},
     visionModel : {JNull, JStr("gpt-5")},
     mimeType : {JStr("image/png"), JStr("image/webp"), JStr("image/invalid"), JStr(""),
                 JUndef}]
\* img = new EmbImage(data, [], embModel, visionModel, mimeType)
NewEmbImage(args) ==
    /\ Fresh
    /\ made' = [call |-> "EmbImage", n |-> 0, on |-> NoObj, arg |-> args,
                ret |-> EmbImageNew(args.data, JArr(<<>>), args.embModel, args.visionModel,
                                    args.mimeType)]
    /\ UNCHANGED <<obj, doc, last>>

\* obj.enableIndex(options)
EnableIndex(options) ==
    /\ obj # NoObj
    /\ made.n < MaxEnable
    /\ LET r == IF obj.k = "Text" THEN TextEnableIndex(obj, options)
                ELSE ImageEnableIndex(obj, options)
       IN /\ obj' = r.obj
          /\ made' = [call |-> "enableIndex", n |-> made.n + 1, on |-> obj, arg |-> options,
                      ret |-> r.ret]
    /\ UNCHANGED <<doc, last>>

\* doc = a document of the shape sh around the prepared instance or a plain leaf
Build(sh, leaf) ==
    /\ doc = EmptyDoc /\ last = Idle
    /\ leaf \in PlainLeaves \cup WireLeaves \/ (obj # NoObj /\ leaf = obj)
    /\ doc' = Shape(sh, leaf)
    /\ obj' = NoObj
    /\ made' = NoCall
    /\ last' = Idle

\* the caller is done preparing and holds the document, not yet used
Ready == obj = NoObj /\ made = NoCall /\ last = Idle

\* wire = collection.serialize(doc)
CallSerialize ==
    /\ Ready
    /\ last' = [op |-> "serialize", out |-> Serialize(doc, 0, doc)]
    /\ UNCHANGED <<obj, made, doc>>

\* files = collection.extractBinaryData([doc])
CallExtractBinaryData ==
    /\ Ready
    /\ last' = [op |-> "extractBinaryData", out |-> ExtractBinaryData(<<doc>>)]
    /\ UNCHANGED <<obj, made, doc>>

\* back = collection.deserialize(wire), wire the result of serialize(doc)
CallDeserialize ==
    /\ last.op = "serialize"
    /\ ~IsThrow(last.out)
    /\ last' = [op |-> "deserialize", in |-> last.out,
                out |-> Deserialize(last.out, 0, last.out)]
    /\ UNCHANGED <<obj, made, doc>>

\* a tree JSON.parse can give, or such a tree closed into a cycle by hand
RECURSIVE IsJsonTree(_)
IsJsonTree(value) ==
    CASE value.k \in {"null", "boolean", "number", "string", "ref"} -> TRUE
      [] value.k = "array" -> \A i \in 1..Len(value.items) : IsJsonTree(value.items[i])
      [] value.k = "object" -> \A i \in 1..Len(value.ent) : IsJsonTree(value.ent[i].val)
      [] value.k = "nest" -> IsJsonTree(value.inner)
      [] OTHER -> FALSE

\* back = collection.deserialize(doc), doc a tree received from the server
CallDecode ==
    /\ Ready
    /\ IsJsonTree(doc)
    /\ last' = [op |-> "decode", out |-> Deserialize(doc, 0, doc)]
    /\ UNCHANGED <<obj, made, doc>>

\* shown = String(image), image the Image deserialize has returned
CallToString ==
    /\ last.op \in {"decode", "deserialize"}
    /\ last.out.k = "Image"
    /\ last' = [op |-> "toString", on |-> last.out, out |-> JStr(ImageToString(last.out))]
    /\ UNCHANGED <<obj, made, doc>>

\* result = await earlier.insertOne(doc), doc a tree of JSON data and EmbText
\* fields; the document is rewritten in place
CallLegacyInsertOne(response) ==
    /\ Ready
    /\ LET RECURSIVE IsLegacyTree(_)
           IsLegacyTree(value) ==
               CASE IsEmbText(value) -> TRUE
                 [] value.k \in {"null", "boolean", "number", "string", "ref"} -> TRUE
                 [] value.k = "array" ->
                       \A i \in 1..Len(value.items) : IsLegacyTree(value.items[i])
                 [] value.k = "object" ->
                       \A i \in 1..Len(value.ent) : IsLegacyTree(value.ent[i].val)
                 [] value.k = "nest" -> IsLegacyTree(value.inner)
                 [] OTHER -> FALSE
           Done(r) == /\ last' = r
                      /\ doc' = r.document
       IN IsLegacyTree(doc) /\ Done(LegacyInsertOne(doc, response))
    /\ UNCHANGED <<obj, made>>

CallInsert(documents, response) ==
    /\ Ready
    /\ last' = Insert(documents, response)
    /\ UNCHANGED <<obj, made, doc>>

\* p = collection.insert([doc]); doc.b[0] = "x"; await p, on a document
\* {a: leaf, b: [leaf]}.  insert() runs up to the first await it meets, which
\* is inside extractBinaryData after the entry `a` has been visited; the
\* caller's assignment runs then, and the walk resumes on the array as the
\* caller has left it.  `document` is what the caller's document has become.
CallInsertThenAssign(response) ==
    /\ Ready
    /\ doc.k = "object" /\ HasKey(doc.ent, "a")
    /\ doc = Shape([shape |-> "pair", levels |-> 0], Get(doc.ent, "a"))
    /\ LET assigned == JMap(<<Entry("a", Get(doc.ent, "a")), Entry("b", JArr(<<JStr("x")>>))>>)
           Resumed(started, binaryFiles) ==
               IF started.stage # "fetch" THEN started
               ELSE IF IsThrow(binaryFiles)
               THEN [started EXCEPT !.stage = "extract", !.sent = <<>>, !.out = binaryFiles]
               ELSE [started EXCEPT
                       !.sent = <<Request(DocumentUrl, "POST",
                                          AppendFiles(<<started.sent[1].form[1]>>,
                                                      binaryFiles))>>]
           Done(r) ==
               last' = [op |-> "insertThenAssign", args |-> r.args, stage |-> r.stage,
                        sent |-> r.sent, out |-> r.out, document |-> assigned]
       IN Done(Resumed(Insert(JArr(<<doc>>), response), ExtractBinaryData(<<assigned>>)))
    /\ UNCHANGED <<obj, made, doc>>

CallUpdate(args, response) ==
    /\ Ready
    /\ last' = Update(args.filter, doc, args.upsert, response)
    /\ UNCHANGED <<obj, made, doc>>

\* result = await collection.delete(doc); the answer the server gave is kept
\* beside the outcome
CallDelete(response) ==
    /\ Ready
    /\ last' = Delete(doc, response) @@ [response |-> response]
    /\ UNCHANGED <<obj, made, doc>>

CallFind(args, response) ==
    /\ Ready
    /\ last' = Find(args.filter, args.options, response)
    /\ UNCHANGED <<obj, made, doc>>

CallQuery(options, response) ==
    /\ Ready
    /\ last' = Query("cats", options, response)
    /\ UNCHANGED <<obj, made, doc>>

CallDrop(response) ==
    /\ Ready
    /\ last' = Drop(response)
    /\ UNCHANGED <<obj, made, doc>>

\* the arguments the caller passes around the document
InsertArgs == {JArr(<<doc>>), JArr(<<EmptyDoc, doc>>), JArr(<<doc, JNull>>), JArr(<<>>), doc}
UpdateArgs ==
    {[filter |-> JMap(<<Entry("name", JStr("Alice"))>>), upsert |-> FALSE],
     [filter |-> JMap(<<Entry("bad", [k |-> "function"])>>), upsert |-> TRUE]}
FindArgs ==
    {[filter |-> doc, options |-> NoFindOptions],
     [filter |-> JNull,
      options |-> [NoFindOptions EXCEPT !.projection = JMap(<<Entry("name", JNum(1))>>),
                                        !.limit = JNum(5)]]}
QueryOptionSets ==
    {NoQueryOptions,
     [NoQueryOptions EXCEPT !.filter = doc, !.topK = JNum(3)]}

Next ==
    \/ \E text \in TextArgs : NewText(text)
    \/ \E data \in ImageArgs : NewImage(data)
    \/ \E args \in EmbImageArgs : NewEmbImage(args)
    \/ \E options \in IndexOptions : EnableIndex(options)
    \/ \E sh \in Shapes, leaf \in PlainLeaves \cup WireLeaves \cup {obj} : Build(sh, leaf)
    \/ CallSerialize
    \/ CallExtractBinaryData
    \/ CallDeserialize
    \/ CallDecode
    \/ CallToString
    \/ \E response \in Responses : CallLegacyInsertOne(response)
    \/ \E documents \in InsertArgs, response \in Responses : CallInsert(documents, response)
    \/ \E response \in Responses : CallInsertThenAssign(response)
    \/ \E args \in UpdateArgs, response \in Responses : CallUpdate(args, response)
    \/ \E response \in Responses \cup OtherResponses : CallDelete(response)
    \/ \E args \in FindArgs, response \in Responses : CallFind(args, response)
    \/ \E options \in QueryOptionSets, response \in Responses : CallQuery(options, response)
    \/ \E response \in Responses \cup {Response(TRUE, 204, "No Content", NoJsonBody)} :
          CallDrop(response)

Spec == Init /\ [][Next]_vars

(***************************************************************************)
(* Properties                                                              *)
(***************************************************************************)
\* the leaves of a tree with their locations: path is the sequence of keys
\* and indexes from the root; a self reference counts as a leaf, and so
\* does, for the decoder, a wire object with a marker key
RECURSIVE LeavesIn(_, _, _)
LeavesIn(value, path, decoding) ==
    CASE value.k = "array" ->
            UNION {LeavesIn(value.items[i], Append(path, ToString(i - 1)), decoding) :
                      i \in 1..Len(value.items)}
      [] value.k = "object" /\ ~(decoding /\ FirstMarker(value.ent) > 0) ->
            UNION {LeavesIn(value.ent[i].val, Append(path, value.ent[i].key), decoding) :
                      i \in 1..Len(value.ent)}
      [] value.k = "nest" ->
            LeavesIn(value.inner,
                     path \o [i \in 1..value.levels |->
                                 IF value.of = "array" THEN "0" ELSE NestKey],
                     decoding)
      [] OTHER -> {[path |-> path, val |-> value]}
LeavesOf(value, path) == LeavesIn(value, path, FALSE)
Leaves == LeavesOf(doc, <<>>)
\* the value at a location of a tree; undefined if there is none
RECURSIVE At(_, _)
At(tree, path) ==
    IF path = <<>> THEN tree
    ELSE CASE tree.k = "array" ->
                LET hit == {i \in 1..Len(tree.items) : ToString(i - 1) = path[1]} IN
                IF hit = {} THEN JUndef ELSE At(tree.items[CHOOSE i \in hit : TRUE], Tail(path))
           [] tree.k = "object" -> IF HasKey(tree.ent, path[1])
                                   THEN At(Get(tree.ent, path[1]), Tail(path)) ELSE JUndef
           [] tree.k = "nest" ->
                LET step == IF tree.of = "array" THEN "0" ELSE NestKey IN
                IF Len(path) >= tree.levels /\ \A i \in 1..tree.levels : path[i] = step
                THEN At(tree.inner, SubSeq(path, tree.levels + 1, Len(path)))
                ELSE JUndef
           [] OTHER -> JUndef
\* the segments of a location joined by dots
RECURSIVE DotPath(_)
DotPath(path) ==
    IF path = <<>> THEN ""
    ELSE IF Len(path) = 1 THEN path[1]
    ELSE LET h == Len(path) \div 2 IN
         DotPath(SubSeq(path, 1, h)) \o "." \o DotPath(SubSeq(path, h + 1, Len(path)))

\* the leaf types a document may hold
SupportedKinds ==
    (Primitives \ {"undefined"}) \cup
    {"Text", "Image", "ObjectId", "Date", "Decimal128", "Binary", "RegExp", "Code",
     "Timestamp", "MinKey", "MaxKey"}
\* the document is a tree of arrays and plain maps over supported leaves
SupportedDocument == \A l \in Leaves : l.val.k \in SupportedKinds
\* the Image leaves of the document that hold a binary (non-string) payload
BinaryImages == {l \in Leaves : l.val.k = "Image" /\ l.val.data.k # "string"}
\* the Image leaves whose payload is a base64 string
Base64Images ==
    {l \in Leaves : /\ l.val.k = "Image"
                    /\ l.val.data.k = "string"
                    /\ ~StartsWith(l.val.data.s, "http")}
\* the wire object under the marker key at a location of the wire tree
Under(wire, path, marker) == PropsOf(Get(PropsOf(At(wire, path)), marker))

\* C1: (as claimed) for every document d built only from supported leaf
\* types, deserialize(serialize(d)) completes without error and is
\* structurally equal to d, the index flag and the optional fields included.
C1_RoundTrip ==
    (last.op = "deserialize" /\ SupportedDocument)
        => (~IsThrow(last.out) /\ last.out = doc)
\* the round trip of {name: "Alice", photo: new Image(arrayBuffer)} throws
C1_BinaryImageThrows ==
    /\ last.op = "deserialize"
    /\ doc = JMap(<<Entry("name", JStr("Alice")),
                    Entry("photo", ImageNew([k |-> "ArrayBuffer", bytes |-> <<1, 2>>]))>>)
    /\ IsThrow(last.out)
    /\ StartsWith(last.out.msg, "Invalid data: must be a non-empty string")

\* C2: for a document containing an Image with a binary payload, the wire
\* tree serialize() produces holds the field's wire object without a `data`
\* key, and the side table extractBinaryData() returns for the same document
\* has exactly one entry for the field, under the key made of the field's
\* location, holding the payload; the table has no other entries.
C2_BinaryExclusion ==
    /\ (last.op = "serialize" /\ ~IsThrow(last.out)) =>
          \A l \in BinaryImages :
             /\ HasKey(Under(last.out, l.path, "xImage"), "mime_type")
             /\ ~HasKey(Under(last.out, l.path, "xImage"), "data")
    /\ (last.op = "extractBinaryData" /\ ~IsThrow(last.out)) =>
          /\ \A l \in BinaryImages :
                LET hits == {i \in 1..Len(last.out.ent) :
                                last.out.ent[i].key =
                                   "doc_0." \o DotPath(l.path \o <<"xImage", "data">>)}
                IN /\ Cardinality(hits) = 1
                   /\ \A i \in hits : last.out.ent[i].val.bytes = l.val.data.bytes
          /\ Len(last.out.ent) = Cardinality(BinaryImages)
    /\ (last.op = "extractBinaryData" /\ \A l \in Leaves : l.val.k # "ref") =>
          ~IsThrow(last.out)
\* the side table of {a: img, b: [img]} with a binary img has two entries
C2_Witness ==
    /\ last.op = "extractBinaryData"
    /\ ~IsThrow(last.out)
    /\ Cardinality(BinaryImages) = 2
    /\ Keys(last.out.ent) = {"doc_0.a.xImage.data", "doc_0.b.0.xImage.data"}

\* the two binary images of {"b.0": img, b: [img]} share one entry of the table
C2_EntryShared ==
    /\ last.op = "extractBinaryData"
    /\ ~IsThrow(last.out)
    /\ Cardinality(BinaryImages) = 2
    /\ Len(last.out.ent) = 1

\* C3: (as claimed) an Image whose payload is a base64 string is never
\* embedded in the wire tree: serialize() emits no `data` for it, and
\* extractBinaryData() places it in the side table.
C3_Base64NotInWire ==
    /\ (last.op = "serialize" /\ ~IsThrow(last.out)) =>
          \A l \in Base64Images : ~HasKey(Under(last.out, l.path, "xImage"), "data")
    /\ (last.op = "extractBinaryData" /\ ~IsThrow(last.out)) =>
          \A l \in Base64Images :
             HasKey(last.out.ent, "doc_0." \o DotPath(l.path \o <<"xImage", "data">>))
\* the wire tree of {name: "Alice", photo: new Image("SGVsbG8=")} holds the
\* base64 text under `data`
C3_Base64InWire ==
    /\ last.op = "serialize"
    /\ doc = JMap(<<Entry("name", JStr("Alice")), Entry("photo", ImageNew(JStr("SGVsbG8=")))>>)
    /\ ~IsThrow(last.out)
    /\ Get(Under(last.out, <<"photo">>, "xImage"), "data") = JStr("SGVsbG8=")
\* ... and the side table of the same document is empty
C3_Base64NotExtracted ==
    /\ last.op = "extractBinaryData"
    /\ doc = JMap(<<Entry("name", JStr("Alice")), Entry("photo", ImageNew(JStr("SGVsbG8=")))>>)
    /\ last.out = JMap(<<>>)

\* the optional fields of an embeddable field and their wire keys
OptionalKeys ==
    [embModel |-> "emb_model", visionModel |-> "vision_model",
     maxChunkSize |-> "max_chunk_size", chunkOverlap |-> "chunk_overlap",
     isSeparatorRegex |-> "is_separator_regex", separators |-> "separators",
     keepSeparator |-> "keep_separator"]
OptionalFields(v) == DOMAIN OptionalKeys \cap DOMAIN v
\* the Text and Image leaves of the document
Embeddables == {l \in Leaves : l.val.k \in {"Text", "Image"}}
Marker(v) == IF v.k = "Text" THEN "xText" ELSE "xImage"
Mandatory(v) == IF v.k = "Text" THEN {"text", "index"} ELSE {"mime_type", "index"}

\* C4: (as claimed) the wire object of a Text or Image with no optional
\* field set holds the mandatory keys only (text or mime_type, and index),
\* and no key of it is null; after any enableIndex calls an optional key is
\* present iff the field is not null.
C4_SparseEncoding ==
    (last.op = "serialize" /\ ~IsThrow(last.out)) =>
        \A l \in Embeddables :
           LET w == Under(last.out, l.path, Marker(l.val)) IN
           /\ (\A f \in OptionalFields(l.val) : l.val[f] = JNull)
                 => Keys(w) = Mandatory(l.val)
           /\ \A i \in 1..Len(w) : w[i].val # JNull
           /\ \A f \in OptionalFields(l.val) :
                 HasKey(w, OptionalKeys[f]) <=> l.val[f] # JNull
\* the part of C4 that the code keeps: an optional key is present iff the
\* field is not null, and no key is null
C4_OptionalKeysSparse ==
    (last.op = "serialize" /\ ~IsThrow(last.out)) =>
        \A l \in Embeddables :
           LET w == Under(last.out, l.path, Marker(l.val)) IN
           /\ \A i \in 1..Len(w) : w[i].val # JNull
           /\ \A f \in OptionalFields(l.val) :
                 HasKey(w, OptionalKeys[f]) <=> l.val[f] # JNull
\* the wire object of new Image(arrayBuffer) has the keys mime_type, index
\* and chunks
C4_ChunksBesideMandatory ==
    /\ last.op = "serialize"
    /\ doc = ImageNew([k |-> "ArrayBuffer", bytes |-> <<1, 2>>])
    /\ ~IsThrow(last.out)
    /\ Keys(Under(last.out, <<>>, "xImage")) = {"mime_type", "index", "chunks"}

\* C5: (as claimed) the `chunks` key appears in the serialized form of an
\* embeddable field iff the instance's chunks are not empty.
C5_ChunksIffNonEmpty ==
    (last.op = "serialize" /\ ~IsThrow(last.out)) =>
        \A l \in Embeddables :
           HasKey(Under(last.out, l.path, Marker(l.val)), "chunks")
              <=> l.val.chunks # JArr(<<>>)
\* the wire object of a freshly constructed Image holds chunks: []
C5_EmptyChunksEmitted ==
    /\ last.op = "serialize"
    /\ doc = JMap(<<Entry("name", JStr("Alice")),
                    Entry("photo", ImageNew([k |-> "ArrayBuffer", bytes |-> <<1, 2>>]))>>)
    /\ ~IsThrow(last.out)
    /\ Get(Under(last.out, <<"photo">>, "xImage"), "chunks") = JArr(<<>>)

\* the greatest depth of a value of the tree, the root at depth 0 and every
\* descent into an array or a plain map adding 1; a wire object with a
\* marker key is a leaf of the decoder, and so is of the encoder a value the
\* codec table converts; a self reference makes the depth exceed every limit
Max(S) == CHOOSE x \in S : \A y \in S : y <= x
RECURSIVE Deepest(_, _, _)
Deepest(value, depth, decoding) ==
    CASE value.k = "ref" -> depth + MaxDepth + 1
      [] value.k = "nest" -> Deepest(value.inner, depth + value.levels, decoding)
      [] value.k = "array" ->
            Max({depth} \cup {Deepest(value.items[i], depth + 1, decoding) :
                                 i \in 1..Len(value.items)})
      [] value.k \in {"object", "instance"}
         /\ ConstructorName(value) \notin SerializerNames
         /\ ~(decoding /\ FirstMarker(OwnEntries(value)) > 0) ->
            Max({depth} \cup {Deepest(OwnEntries(value)[i].val, depth + 1, decoding) :
                                 i \in 1..Len(OwnEntries(value))})
      [] OTHER -> depth
\* no leaf within the depth limit makes the walker fail by itself
ShallowLeavesConvert(decoding) ==
    \A l \in LeavesIn(doc, <<>>, decoding) :
       (Len(l.path) <= MaxDepth /\ l.val.k # "ref") =>
          ~IsThrow(IF decoding THEN Deserialize(l.val, 0, l.val) ELSE Serialize(l.val, 0, l.val))

\* C6: serialize() and deserialize() fail with the depth error exactly when
\* a value is reached at a depth greater than 100, the root being at depth 0
\* and each descent into an array or a plain map adding 1: a document nested
\* to depth 101 fails and one nested to depth 100 does not; a self-referential
\* structure fails with the depth error too.
C6_DepthGuard ==
    /\ last.op = "serialize" =>
          /\ last.out = SerializeDepthError => Deepest(doc, 0, FALSE) > MaxDepth
          /\ (Deepest(doc, 0, FALSE) > MaxDepth /\ ShallowLeavesConvert(FALSE))
                => last.out = SerializeDepthError
    /\ last.op = "decode" =>
          /\ last.out = DeserializeDepthError => Deepest(doc, 0, TRUE) > MaxDepth
          /\ (Deepest(doc, 0, TRUE) > MaxDepth /\ ShallowLeavesConvert(TRUE))
                => last.out = DeserializeDepthError
\* a document nested to depth 101 is rejected by serialize()
C6_Depth101Fails ==
    /\ last.op = "serialize"
    /\ doc = JNest("object", MaxDepth + 1, JStr("x"))
    /\ last.out = SerializeDepthError
\* a document nested to depth 100 is serialized, and decoded again
C6_Depth100Passes ==
    /\ last.op = "deserialize"
    /\ doc = JNest("array", MaxDepth, JStr("x"))
    /\ last.out = doc
\* a self-referential structure is rejected by both directions
C6_CycleFails ==
    /\ last.op = "decode"
    /\ doc = JMap(<<Entry("photo", JStr("x")), Entry("self", JRef)>>)
    /\ last.out = DeserializeDepthError

\* the errors raised before the request of a call is made: by the input
\* validation of insert, by serialize() where the method calls it, and by
\* the binary extraction of insert and update
SerializeCalled(filter) ==
    CASE last.op = "find" ->
            filter \notin {JNull, JUndef} /\ TypeOf(filter) = "object" /\ KeyCount(filter) > 0
      [] last.op = "query" -> filter \notin {JNull, JUndef}
      [] OTHER -> TRUE
ErrorsBeforeRequest ==
    LET a == last.args
        ser == {Serialize(a[i], 0, a[i]) : i \in {j \in 1..Len(a) : SerializeCalled(a[j])}}
    IN CASE last.op = "insert" ->
               IF a[1].k # "array" \/ a[1].items = <<>>
                  \/ \E i \in 1..Len(a[1].items) : ~IsDocument(a[1].items[i])
               THEN {e \in {last.out} : IsThrow(e) /\ e.name = "ClientRequestError"
                                        /\ e.statusCode = JNum(400)}
               ELSE {e \in {SerializeAll(a[1].items), ExtractBinaryData(a[1].items)} :
                        IsThrow(e)}
         [] last.op = "update" ->
               {e \in ser \cup {ExtractBinaryData(<<a[2]>>)} : IsThrow(e)}
         [] last.op \in {"delete", "find", "query"} -> {e \in ser : IsThrow(e)}
         [] OTHER -> {}
InvalidInsert ==
    /\ last.op = "insert"
    /\ \/ last.args[1].k # "array"
       \/ last.args[1].items = <<>>
       \/ \E i \in 1..Len(last.args[1].items) : ~IsDocument(last.args[1].items[i])

\* C7: in insert, update, delete, find and query, if the input validation,
\* serialize() or the binary extraction raises an error, that error reaches
\* the caller and fetch is not invoked for the call.
C7_NoRequestAfterFailure ==
    /\ last.op \in {"insert", "update", "delete", "find", "query"} =>
          /\ ErrorsBeforeRequest # {} => (last.sent = <<>> /\ last.out \in ErrorsBeforeRequest)
          /\ InvalidInsert => ErrorsBeforeRequest # {}
          /\ ErrorsBeforeRequest = {} => Len(last.sent) = 1
\* an update whose document cannot be serialized sends nothing
C7_Witness ==
    /\ last.op = "update"
    /\ doc = JNest("object", MaxDepth + 1, JStr("x"))
    /\ last.out = SerializeDepthError
    /\ last.sent = <<>>

\* a validation error about a model name
ModelValidationError(r) ==
    /\ IsThrow(r)
    /\ StartsWith(r.msg, "Invalid embedding model") \/ StartsWith(r.msg, "Invalid vision model")

\* C8: (as claimed) decoding does not validate again: the wire object
\* {xText: {text: "hi", chunks: ["hi"], index: true}} decodes to a Text with
\* chunks ["hi"] and the index flag set, and no wire object under a text or
\* image marker raises a validation error because of the value of emb_model
\* or vision_model, whatever the value of index.
C8_NoRevalidation ==
    last.op = "decode" =>
        /\ ~ModelValidationError(last.out)
        /\ doc = JMap(<<Entry("xText", JMap(<<Entry("text", JStr("hi")),
                  Entry("chunks", JArr(<<JStr("hi")>>)), Entry("index", JBool(TRUE))>>))>>)
              => /\ last.out.k = "Text"
                 /\ last.out.chunks = JArr(<<JStr("hi")>>)
                 /\ last.out.indexEnabled = JBool(TRUE)
\* decoding {xText: {text: "hi", index: true, emb_model: "old-model"}} throws
\* the validation error of enableIndex
C8_IndexedTextRevalidated ==
    /\ last.op = "decode"
    /\ doc = JMap(<<Entry("xText", JMap(<<Entry("text", JStr("hi")),
                Entry("index", JBool(TRUE)), Entry("emb_model", JStr("old-model"))>>))>>)
    /\ last.out = Throw("Error", "Invalid embedding model: old-model is not supported.")

\* the content is a string that is not empty after trimming whitespace
NonBlankString(v) ==
    v.k = "string" /\ \E i \in 1..Len(v.s) : CharAt(v.s, i) \notin WhiteSpace
\* the message names every model of the supported set
NamesSupportedSet(msg) ==
    \A i \in 1..Len(TextToEmbeddingValues) : Contains(msg, TextToEmbeddingValues[i])
\* the last call was enableIndex on a Text with an embModel outside the set
RejectedTextModel ==
    /\ made.call = "enableIndex"
    /\ made.on.k = "Text"
    /\ made.arg.embModel # JUndef
    /\ ~Includes(TextToEmbeddingValues, made.arg.embModel)

ListsSupportedMimeTypes(msg) ==
    \A i \in 1..Len(SUPPORTED_MIME_TYPES) : Contains(msg, SUPPORTED_MIME_TYPES[i])
\* every model name the options give is one of its supported set
ModelsValidOrAbsent(options) ==
    /\ options.embModel = JUndef \/ Includes(TextToEmbeddingValues, options.embModel)
    /\ options.visionModel = JUndef \/ Includes(ImageToTextValues, options.visionModel)

\* C10: constructing an Image never fails because of its mimeType: a
\* constructor error is about the data, and a payload whose mime type is
\* outside the supported set gives an instance; enableIndex on an Image with
\* such a mimeType fails with a validation error that lists the supported
\* set, and on an Image with a supported mimeType and valid or absent model
\* names it succeeds and sets the index flag.
C10_MimeDeferred ==
    /\ made.call = "Image" =>
          /\ IsThrow(made.ret) => StartsWith(made.ret.msg, "Invalid data")
          /\ made.arg \in {JStr("data:image/bmp;base64,QUJD"),
                           [k |-> "Blob", type |-> "image/bmp", bytes |-> <<66, 77>>]}
                => (made.ret.k = "Image" /\ made.ret.mimeType = JStr("image/bmp"))
    /\ (made.call = "enableIndex" /\ made.on.k = "Image") =>
          /\ ~Includes(SUPPORTED_MIME_TYPES, made.on.mimeType)
                => /\ IsThrow(made.ret)
                   /\ StartsWith(made.ret.msg, "Unsupported mime type")
                   /\ ListsSupportedMimeTypes(made.ret.msg)
          /\ (Includes(SUPPORTED_MIME_TYPES, made.on.mimeType)
              /\ ModelsValidOrAbsent(made.arg))
                => (made.ret = obj /\ obj.k = "Image" /\ obj.indexEnabled = JBool(TRUE))
\* enableIndex on an Image built from a bmp data URL has thrown
C10_Witness ==
    /\ made.call = "enableIndex"
    /\ made.on.k = "Image"
    /\ made.on.mimeType = JStr("image/bmp")
    /\ IsThrow(made.ret)
    /\ ListsSupportedMimeTypes(made.ret.msg)
\* C11: new EmbImage(validBase64, [], null, null, mime) throws when mime is not
\* one of the five supported mime types and returns an instance of that mime
\* type when it is
C11_EmbImageMime ==
    (/\ made.call = "EmbImage"
     /\ made.arg.data = JStr("SGVsbG8gV29ybGQ=")
     /\ made.arg.embModel = JNull /\ made.arg.visionModel = JNull)
    => IF made.arg.mimeType \in {JStr("image/jpeg"), JStr("image/jpg"), JStr("image/png"),
                                 JStr("image/gif"), JStr("image/webp")}
       THEN made.ret.k = "EmbImage" /\ made.ret.mimeType = made.arg.mimeType
       ELSE IsThrow(made.ret)
\* new EmbImage("SGVsbG8gV29ybGQ=", [], null, null, "image/invalid") has thrown
C11_Witness ==
    /\ made.call = "EmbImage"
    /\ made.arg.data = JStr("SGVsbG8gV29ybGQ=")
    /\ made.arg.embModel = JNull /\ made.arg.visionModel = JNull
    /\ made.arg.mimeType = JStr("image/invalid")
    /\ IsThrow(made.ret)
\* the leaves of the document that serialize() has no conversion for:
\* functions, symbols, bigints and instances of classes outside the table
UnsupportedLeaves ==
    {l \in Leaves : \/ l.val.k \in {"function", "symbol", "bigint"}
                    \/ l.val.k = "instance" /\ l.val.ctor \notin SerializerNames}
\* C12: (as claimed) serialize() of a document that holds a function, a
\* symbol, a bigint or an instance of an unregistered class fails, and unless
\* the depth guard fails first the error names the runtime type of the value
C12_UnsupportedRejected ==
    (last.op = "serialize" /\ UnsupportedLeaves # {}) =>
        /\ IsThrow(last.out)
        /\ last.out.msg \in
              {SerializeDepthError.msg} \cup
              {"Unsupported BSON type: " \o TypeOf(l.val) : l \in UnsupportedLeaves}
\* the part the code keeps: values whose typeof is not "object" are refused
C12_NonObjectsRejected ==
    (last.op = "serialize" /\ \E l \in Leaves : l.val.k \in {"function", "symbol", "bigint"}) =>
        /\ IsThrow(last.out)
        /\ last.out.msg \in
              {SerializeDepthError.msg} \cup
              {"Unsupported BSON type: " \o k : k \in {"function", "symbol", "bigint"}}
\* serialize({name: "Alice", photo: new Map()}) returns {name: "Alice", photo: {}}
C12_MapInstanceSerialized ==
    /\ last.op = "serialize"
    /\ doc = JMap(<<Entry("name", JStr("Alice")),
                    Entry("photo", [k |-> "instance", ctor |-> "Map", ent |-> <<>>])>>)
    /\ last.out = JMap(<<Entry("name", JStr("Alice")), Entry("photo", JMap(<<>>))>>)
\* the side-table keys the claim gives for the binary images of a document
\* sent at position index: doc_<index>.k1. ... .kn.xImage.data
SideTableKeys(document, index) ==
    {"doc_" \o ToString(index) \o "." \o DotPath(l.path \o <<"xImage", "data">>) :
        l \in {m \in LeavesOf(document, <<>>) : m.val.k = "Image" /\ m.val.data.k # "string"}}
\* the names of the multipart parts of a request after its first n fields
PartNames(request, n) ==
    {request.form[i].key : i \in (n + 1)..Len(request.form)}
\* C13: the request insert() sends carries, for the document at position i
\* of the documents array, one part per binary Image under the key
\* doc_<i>.<path>.xImage.data, and the request update() sends carries the
\* parts of the update document under doc_0; there are no other parts
C13_SideTablePaths ==
    /\ (last.op = "insert" /\ last.stage = "fetch") =>
          PartNames(last.sent[1], 1) =
             UNION {SideTableKeys(last.args[1].items[i], i - 1) :
                       i \in 1..Len(last.args[1].items)}
    /\ (last.op = "update" /\ last.stage = "fetch") =>
          PartNames(last.sent[1], 3) = SideTableKeys(last.args[2], 0)
\* insert([{}, {a: img, b: [img]}]) with a binary img sends the parts
\* doc_1.a.xImage.data and doc_1.b.0.xImage.data
C13_Witness ==
    /\ last.op = "insert" /\ last.stage = "fetch"
    /\ Len(last.args[1].items) = 2
    /\ PartNames(last.sent[1], 1) = {"doc_1.a.xImage.data", "doc_1.b.0.xImage.data"}
\* insert([img]) with a binary img as the document sends doc_0.xImage.data,
\* and so does update(filter, img)
C13_RootImage ==
    /\ last.op \in {"insert", "update"} /\ last.stage = "fetch"
    /\ PartNames(last.sent[1], IF last.op = "insert" THEN 1 ELSE 3) = {"doc_0.xImage.data"}
\* the effect of one successful enableIndex call: the instance returned is
\* the instance called on, its flag is true, an option passed is stored, a
\* field whose option was not passed keeps its value, and the content fields
\* are untouched
EnableIndexEffect ==
    (made.call = "enableIndex" /\ ~IsThrow(made.ret)) =>
        /\ made.ret = obj
        /\ obj.indexEnabled = JBool(TRUE)
        /\ \A f \in OptionalFields(obj) :
               obj[f] = IF made.arg[f] # JUndef THEN made.arg[f] ELSE made.on[f]
        /\ \A f \in DOMAIN obj \ (DOMAIN OptionalKeys \cup {"indexEnabled"}) :
               obj[f] = made.on[f]
\* a step keeps a flag that is true: on the instance being prepared, and on
\* the instances of a document handed to serialize() or a request method
FlagStays ==
    /\ (obj # NoObj /\ obj.indexEnabled = JBool(TRUE) /\ obj' # NoObj) =>
          obj'.indexEnabled = JBool(TRUE)
    /\ \A l \in Embeddables : At(doc', l.path) = l.val
\* C14: a successful enableIndex call returns the same instance, sets the flag,
\* sets exactly the options passed and leaves the other fields unchanged, and
\* a flag that is true stays true under later enableIndex and serialize calls
C14_ChainableBuilder == []EnableIndexEffect /\ [][FlagStays]_vars
\* a second enableIndex call without the chunking options has kept the chunk
\* size the first call stored, and has stored a model beside it
C14_Witness ==
    /\ made.call = "enableIndex" /\ made.n = 2 /\ ~IsThrow(made.ret)
    /\ made.arg.maxChunkSize = JUndef /\ made.arg.embModel # JUndef
    /\ obj.maxChunkSize = JNum(500)
    /\ obj.embModel = made.arg.embModel
    /\ made.on.embModel = JNull
\* C15: a call made on the document, whether it returns or fails, leaves
\* the caller's document as it was
C15_CallsKeepDocument == [][last' # last => doc' = doc]_vars
\* the same of the calls of the present Collection alone: serialize,
\* deserialize, extractBinaryData and the request methods built on them
C15_PresentCallsKeepDocument ==
    [][(last' # last /\ last'.op # "insertOne") => doc' = doc]_vars
\* insertOne of the earlier Collection has returned the server's answer and
\* the caller's EmbText field has become its wire form
C15_DocumentRewritten ==
    /\ last.op = "insertOne" /\ ~IsThrow(last.out)
    /\ last.args[1] = JMap(<<Entry("name", JStr("Alice")), Entry("photo", EmbTextNew(JStr("hi")))>>)
    /\ doc = JMap(<<Entry("name", JStr("Alice")),
                    Entry("photo", EmbTextToJSON(EmbTextNew(JStr("hi"))))>>)
\* insertOne of the earlier Collection has failed on a document that holds
\* itself, and the document is rewritten all the same
C15_FailedCallRewrote ==
    /\ last.op = "insertOne" /\ IsThrow(last.out) /\ last.stage = "transform"
    /\ last.args[1] # doc
\* the wire object lacks what its marker requires: `text` is missing or null
\* under the text marker, `mime_type` is missing under the image marker
RequiredAbsent(wire) ==
    LET inner == PropsOf(Get(wire.ent, Markers[FirstMarker(wire.ent)])) IN
    IF HasKey(wire.ent, "xText") THEN Get(inner, "text") \in {JUndef, JNull}
    ELSE ~HasKey(inner, "mime_type")
\* the document is one wire object under the text or the image marker, and
\* deserialize has been applied to it
MarkerDecoded ==
    /\ last.op = "decode" /\ doc \in WireLeaves
    /\ FirstMarker(doc.ent) \in {1, 2}
\* C16: decoding a wire object under the text or the image marker fails if
\* and only if the required field is absent, and returns an instance when it
\* is present
C16_FailsIffRequiredAbsent ==
    MarkerDecoded =>
        /\ IsThrow(last.out) <=> RequiredAbsent(doc)
        /\ ~RequiredAbsent(doc) => last.out.k \in {"Text", "Image"}
\* one direction of it: without the required field the decoder fails, with
\* the message that names the field and the marker
C16_AbsentFails ==
    (MarkerDecoded /\ RequiredAbsent(doc)) =>
        /\ IsThrow(last.out)
        /\ last.out.msg \in {"JSON data must include 'text' under 'xText'.",
                             "JSON data must include 'mime_type' under 'xImage'."}
\* an image wire object with its mime_type and no data, the form serialize
\* gives a binary image, is refused by the constructor
C16_ImageWithoutDataFails ==
    /\ MarkerDecoded /\ ~RequiredAbsent(doc)
    /\ HasKey(doc.ent, "xImage") /\ ~HasKey(PropsOf(Get(doc.ent, "xImage")), "data")
    /\ IsThrow(last.out)
\* both wire objects that lack the required field have been refused
C16_ImageWithoutMimeFails ==
    /\ MarkerDecoded /\ RequiredAbsent(doc) /\ HasKey(doc.ent, "xImage")
    /\ IsThrow(last.out)
\* the images of the document whose payload is a string beginning with http
UrlImages ==
    {l \in Leaves : l.val.k = "Image" /\ l.val.data.k = "string"
                      /\ StartsWith(l.val.data.s, "http")}
\* C17: (as claimed) once the extraction pass has run over the document, an
\* image with an http payload has answered hasBinaryData() with false and
\* getBinaryData() with null and has no entry in the side table, and
\* hasBinaryData() is true exactly of the images with a non-string payload
C17_UrlNotBinary ==
    (last.op = "extractBinaryData" /\ ~IsThrow(last.out)) =>
        /\ \A l \in UrlImages :
              /\ ~ImageHasBinaryData(l.val)
              /\ ImageGetBinaryData(l.val) = JNull
              /\ ~HasKey(last.out.ent, "doc_0." \o DotPath(l.path \o <<"xImage", "data">>))
        /\ \A l \in Embeddables :
              l.val.k = "Image" => (ImageHasBinaryData(l.val) <=> l.val.data.k # "string")
\* what holds of it: getBinaryData() is null for an http payload, the side
\* table has no entry for the image, and a non-string payload is binary
C17_UrlNotExtracted ==
    (last.op = "extractBinaryData" /\ ~IsThrow(last.out)) =>
        /\ \A l \in UrlImages :
              /\ ImageGetBinaryData(l.val) = JNull
              /\ ~HasKey(last.out.ent, "doc_0." \o DotPath(l.path \o <<"xImage", "data">>))
        /\ \A l \in Embeddables :
              (l.val.k = "Image" /\ l.val.data.k # "string") => ImageHasBinaryData(l.val)
\* {name: "Alice", photo: new Image("http://x.io/a.png")} went through the
\* extraction pass: the image says it has binary data, and the table is empty
C17_UrlReportedBinary ==
    /\ last.op = "extractBinaryData"
    /\ doc = JMap(<<Entry("name", JStr("Alice")),
                    Entry("photo", ImageNew(JStr("http://x.io/a.png")))>>)
    /\ ImageHasBinaryData(At(doc, <<"photo">>))
    /\ last.out = JMap(<<>>)
\* C18: (as claimed) the display string of an image is its first chunk when
\* it has chunks, otherwise the URL when its payload is an external URL,
\* otherwise the raw-data placeholder
C18_DisplayString ==
    last.op = "toString" =>
        last.out.s =
            IF Len(last.on.chunks.items) > 0
            THEN "Image(\"" \o last.on.chunks.items[1].s \o "\")"
            ELSE IF last.on.data.k = "string" /\ StartsWith(last.on.data.s, "http")
            THEN "Image(" \o last.on.data.s \o ")"
            ELSE "Image(<raw data>)"
\* the order the code follows: the URL first, then the first chunk, then the
\* placeholder
C18_UrlBeforeChunks ==
    last.op = "toString" =>
        last.out.s =
            IF last.on.data.k = "string" /\ StartsWith(last.on.data.s, "http")
            THEN "Image(" \o last.on.data.s \o ")"
            ELSE IF Len(last.on.chunks.items) > 0
            THEN "Image(\"" \o last.on.chunks.items[1].s \o "\")"
            ELSE "Image(<raw data>)"
\* an image with a URL and the chunk "a cat" displays the URL
C18_UrlShownDespiteChunks ==
    /\ last.op = "toString"
    /\ last.on.chunks = JArr(<<JStr("a cat")>>)
    /\ last.out = JStr("Image(http://x.io/a.png)")
\* an image with a base64 payload and chunks displays its first chunk
C18_FirstChunkShown ==
    /\ last.op = "toString"
    /\ last.on.chunks = JArr(<<JStr("a dog"), JStr("a ball")>>)
    /\ last.out = JStr("Image(\"a dog\")")
\* an image without URL and without chunks displays the placeholder
C18_PlaceholderShown ==
    /\ last.op = "toString"
    /\ last.on.chunks = JArr(<<>>)
    /\ last.out = JStr("Image(<raw data>)")
\* the order of the claim, and the type each marker decodes to
MarkerOrder ==
    <<"xText", "xImage", "$oid", "$date", "$numberDecimal", "$binary", "$regex", "$code",
      "$timestamp", "$minKey", "$maxKey">>
DecodedKind ==
    <<"Text", "Image", "ObjectId", "Date", "Decimal128", "Binary", "RegExp", "Code",
      "Timestamp", "MinKey", "MaxKey">>
\* the positions in that order of the markers among the keys of a wire object
MarkersOf(wire) == {i \in 1..Len(MarkerOrder) : HasKey(wire.ent, MarkerOrder[i])}
\* out is what the marker of wire that comes first in the order decodes to
DecidedByFirst(wire, out) ==
    \E i \in MarkersOf(wire) :
       /\ \A j \in MarkersOf(wire) : i <= j
       /\ out = DecodeMarker(MarkerOrder[i], wire)
       /\ ~IsThrow(out) => out.k = DecodedKind[i]
\* C19: deserialize decodes a wire object by the first marker, in the order
\* text, image, $oid, $date, $numberDecimal, $binary, $regex, $code,
\* $timestamp, $minKey, $maxKey, that is among its keys, whatever other
\* markers or keys it has; an object with no marker becomes a plain map with
\* the same keys whose values are decoded by the same rule
C19_MarkerPriority ==
    (last.op = "decode" /\ doc.k = "object") =>
        IF MarkersOf(doc) # {} THEN DecidedByFirst(doc, last.out)
        ELSE ~IsThrow(last.out) =>
               /\ last.out.k = "object"
               /\ Len(last.out.ent) = Len(doc.ent)
               /\ \A n \in 1..Len(doc.ent) :
                     /\ last.out.ent[n].key = doc.ent[n].key
                     /\ doc.ent[n].val.k = "object" =>
                           IF MarkersOf(doc.ent[n].val) # {}
                           THEN DecidedByFirst(doc.ent[n].val, last.out.ent[n].val)
                           ELSE last.out.ent[n].val.k = "object"
\* {name: "Alice", photo: {xImage: {...}, xText: {text: "hi"}}} has been
\* decoded to a plain map holding a Text
C19_Witness ==
    /\ last.op = "decode"
    /\ doc = JMap(<<Entry("name", JStr("Alice")),
                    Entry("photo",
                          JMap(<<Entry("xImage", JMap(<<Entry("mime_type", JStr("image/png")),
                                                       Entry("data", JStr("http://x.io/a.png"))>>)),
                                 Entry("xText", JMap(<<Entry("text", JStr("hi"))>>))>>))>>)
    /\ last.out.k = "object"
    /\ Get(last.out.ent, "name") = JStr("Alice")
    /\ Get(last.out.ent, "photo") = TextNew(JStr("hi"))
\* {$code: "f()", $regex: "ab+"} has been decoded to the regular expression
C19_RegexBeforeCode ==
    /\ last.op = "decode"
    /\ doc = JMap(<<Entry("$code", JStr("f()")), Entry("$regex", JStr("ab+"))>>)
    /\ last.out = [k |-> "RegExp", source |-> "ab+", flags |-> ""]
\* the leaves of the document that are instances of a class of the caller
\* named like an extended scalar type
Impostors ==
    {l \in Leaves : l.val.k = "instance" /\ l.val.ctor \in SerializerNames}
\* C20: (as claimed) serialize converts by an extended-scalar serializer only
\* a value that is an instance of that type: an instance of another class
\* with the same constructor name is written as the plain map of its fields,
\* under no marker
C20_ExactTypeIdentity ==
    (last.op = "serialize" /\ ~IsThrow(last.out)) =>
        \A l \in Impostors :
           /\ At(last.out, l.path).k = "object"
           /\ MarkersOf(At(last.out, l.path)) = {}
           /\ Keys(At(last.out, l.path).ent) = Keys(l.val.ent)
\* the instances of the bson classes and of classes with other names are
\* written as the claim says: markers for the former, plain maps for the latter
C20_OtherLeavesAsClaimed ==
    (last.op = "serialize" /\ ~IsThrow(last.out)) =>
        \A l \in Leaves :
           /\ l.val.k \in SerializerNames =>
                 MarkersOf(At(last.out, l.path)) # {}
           /\ (l.val.k = "instance" /\ l.val.ctor \notin SerializerNames) =>
                 /\ MarkersOf(At(last.out, l.path)) = {}
                 /\ Keys(At(last.out, l.path).ent) = Keys(l.val.ent)
\* {name: "Alice", photo: new ObjectId()} with `class ObjectId {}` of the
\* caller has been written under the $oid marker
C20_ImpostorConverted ==
    /\ last.op = "serialize"
    /\ doc = JMap(<<Entry("name", JStr("Alice")),
                    Entry("photo", [k |-> "instance", ctor |-> "ObjectId", ent |-> <<>>])>>)
    /\ last.out = JMap(<<Entry("name", JStr("Alice")),
                         Entry("photo", JMap(<<Entry("$oid", JStr("[object Object]"))>>))>>)
\* C21: (as claimed) the side table insert() sends is computed from the state
\* of the document its wire tree was computed from, also when the caller
\* assigns into the document right after starting the call: the parts of the
\* request are those of the binary images of the document as it was passed
C21_SameState ==
    (last.op = "insertThenAssign" /\ last.stage = "fetch") =>
        PartNames(last.sent[1], 1) = SideTableKeys(doc, 0)
\* the request of insert([{a: img, b: [img]}]) with a binary img, the caller
\* assigning doc.b[0] = "x" after the call has started: the wire tree holds
\* both images and the side table the part of the first alone
C21_PartMissing ==
    /\ last.op = "insertThenAssign" /\ last.stage = "fetch"
    /\ doc = Shape([shape |-> "pair", levels |-> 0],
                   ImageNew([k |-> "ArrayBuffer", bytes |-> <<1, 2>>]))
    /\ HasKey(Under(last.sent[1].form[1].val, <<"0", "b", "0">>, "xImage"), "mime_type")
    /\ PartNames(last.sent[1], 1) = {"doc_0.a.xImage.data"}
\* the Image instances of the state: the one being prepared, those of the
\* document, and those deserialize has returned
ImagesHeld ==
    (IF obj.k = "Image" THEN {obj} ELSE {})
    \cup {l.val : l \in {m \in Leaves : m.val.k = "Image"}}
    \cup (IF last.op \in {"deserialize", "decode"} /\ ~IsThrow(last.out)
          THEN {l.val : l \in {m \in LeavesOf(last.out, <<>>) : m.val.k = "Image"}}
          ELSE {})
\* C22: every Image holds exactly one payload, after construction and after
\* any enableIndex, serialize and deserialize: a string that is not empty, or
\* one binary object (File, Blob, ArrayBuffer, Uint8Array), never none
C22_OnePayload ==
    \A img \in ImagesHeld :
       \/ img.data.k = "string" /\ img.data.s # ""
       \/ img.data.k \in BinaryKinds
\* an Image built from a base64 string and indexed has come back from the
\* round trip with the same string
C22_Witness ==
    /\ last.op = "deserialize" /\ ~IsThrow(last.out)
    /\ doc = Shape([shape |-> "field", levels |-> 0], At(doc, <<"photo">>))
    /\ At(doc, <<"photo">>).k = "Image"
    /\ At(doc, <<"photo">>).indexEnabled = JBool(TRUE)
    /\ At(last.out, <<"photo">>).k = "Image"
    /\ At(last.out, <<"photo">>).data = JStr("iVBORw0KGgo=")
\* an Image built from a file path holds the bytes of the file
C22_FileRead ==
    /\ obj.k = "Image" /\ made.call = "Image" /\ made.arg = JStr("pic.png")
    /\ obj.data.k = "Uint8Array"
\* delete() has received an answer that is not OK
FailureAnswered == last.op = "delete" /\ last.stage = "fetch" /\ ~last.response.ok
\* C23: a non-OK response is classified by the code of its body, or by the
\* HTTP status when the body has no code: 401 raises AuthenticationError,
\* another code from 400 to 499 ClientRequestError, any other ServerError,
\* each with that code and the message of the body or the default message;
\* a non-OK response without a JSON body raises APIClientError with the
\* HTTP status
C23_Classification ==
    FailureAnswered =>
        IF ~last.response.body.json
        THEN /\ last.out.name = "APIClientError"
             /\ last.out.statusCode = JNum(last.response.status)
        ELSE LET body == last.response.body.v.ent
                 code == IF HasKey(body, "code") THEN Get(body, "code").n
                         ELSE last.response.status
             IN /\ last.out.name = IF code = 401 THEN "AuthenticationError"
                                    ELSE IF code \in 400..499 THEN "ClientRequestError"
                                    ELSE "ServerError"
                /\ last.out.statusCode = JNum(code)
                /\ last.out.msg = IF HasKey(body, "message") THEN Get(body, "message").s
                                  ELSE "An unknown error occurred."
\* the answer 500 with {code: 401, message: "expired"} has raised
\* AuthenticationError with the code 401
C23_Witness ==
    /\ FailureAnswered
    /\ last.response.status = 500
    /\ last.out = ThrowStatus("AuthenticationError", JNum(401), "expired")
C25_FailedEnableIndexKeepsInstance ==
    (made.call = "enableIndex" /\ IsThrow(made.ret)) =>
        /\ obj = made.on
        /\ (obj.k = "Text" => TextSerialize(obj) = TextSerialize(made.on))
        /\ (obj.k = "Image" => ImageSerialize(obj) = ImageSerialize(made.on))
\* a failed first enableIndex has switched the index flag on
C25_FlagSetByFailedCall ==
    /\ made.call = "enableIndex" /\ IsThrow(made.ret)
    /\ made.on.indexEnabled = JBool(FALSE)
    /\ obj.indexEnabled = JBool(TRUE)
    /\ obj.k = "Text" /\ TextSerialize(obj) # TextSerialize(made.on)
\* C26: within one extractBinaryData() call two different Image leaves with a
\* binary payload never get the same side-table key: the table has as many
\* entries as there are such leaves, also when a map key contains a dot or
\* looks like an array index.
C26_InjectiveKeys ==
    (last.op = "extractBinaryData" /\ ~IsThrow(last.out)) =>
        Len(last.out.ent) = Cardinality(BinaryImages)
\* {"b.0": img, b: [img]} has two binary images and a side table of one
\* entry, doc_0.b.0.xImage.data
C26_KeysCollide ==
    /\ last.op = "extractBinaryData" /\ ~IsThrow(last.out)
    /\ doc.k = "object" /\ Keys(doc.ent) = {"b.0", "b"}
    /\ Cardinality(BinaryImages) = 2
    /\ Keys(last.out.ent) = {"doc_0.b.0.xImage.data"}
C27_StringInWire ==
    /\ last.op = "insert" /\ last.stage = "fetch"
    /\ Len(last.args[1].items) = 1
    /\ At(last.args[1].items[1], <<"photo">>).k = "Image"
    /\ At(last.args[1].items[1], <<"photo">>).data.k = "string"
    /\ HasKey(Under(last.sent[1].form[1].val, <<"0", "photo">>, "xImage"), "data")
    /\ PartNames(last.sent[1], 1) = {}
\* C28: the binary extraction is bounded by the depth limit of serialize():
\* for a self-referential or over-deep document, insert() and update() both
\* end with the depth-guard error and send no request, whichever of the
\* extraction and the serialization runs first.
C28_ExtractionDepthBounded ==
    LET FilterConverts ==
            last.op = "update" => ~IsThrow(Serialize(last.args[1], 0, last.args[1]))
    IN (/\ last.op \in {"insert", "update"}
        /\ last.stage # "validate"
        /\ FilterConverts
        /\ Deepest(doc, 0, FALSE) > MaxDepth
        /\ ShallowLeavesConvert(FALSE))
          => (last.sent = <<>> /\ last.out = SerializeDepthError)
\* update(filter, d) with d.self = d ends in the extraction, which recurses
\* until the call stack is exhausted
C28_UpdateOverflowsStack ==
    /\ last.op = "update"
    /\ last.args[2] = JMap(<<Entry("photo", JStr("x")), Entry("self", JRef)>>)
    /\ last.stage = "extract"
    /\ last.sent = <<>>
    /\ last.out = Throw("RangeError", "Maximum call stack size exceeded")
\* insert([d]) with the same d, and update(filter, d) with d nested to depth
\* 101, end with the depth-guard error
C28_OtherCasesGuarded ==
    \/ /\ last.op = "insert"
       /\ last.args[1] = JArr(<<JMap(<<Entry("photo", JStr("x")), Entry("self", JRef)>>)>>)
       /\ last.out = SerializeDepthError
    \/ /\ last.op = "update"
       /\ last.args[2] = JNest("object", MaxDepth + 1, JStr("x"))
       /\ last.stage = "serialize"
       /\ last.out = SerializeDepthError
\* C29: a plain map of the caller is never decoded as a special type: for
\* every tree of plain maps and arrays over primitive values, whose keys may
\* be marker names (xText, xImage, $oid, ... $maxKey),
\* deserialize(serialize(m)) is equal to m, no key dropped, no error raised.
C29_PlainMapsStayPlain ==
    (last.op = "deserialize" /\ \A l \in Leaves : l.val.k \in Primitives)
        => last.out = doc
\* {name: "Alice", photo: {name: "x", $maxKey: 1}} comes back with a MaxKey
\* instance as photo
C29_MapDecodedAsMaxKey ==
    /\ last.op = "deserialize"
    /\ doc = JMap(<<Entry("name", JStr("Alice")),
                    Entry("photo", JMap(<<Entry("name", JStr("x")), Entry("$maxKey", JNum(1))>>))>>)
    /\ last.out = JMap(<<Entry("name", JStr("Alice")), Entry("photo", [k |-> "MaxKey"])>>)
\* C30: for a response with an OK status, handleResponse returns the
\* deserialized body or lets the decoding error (depth guard, missing
\* required field, validation) reach the caller unchanged; it never raises an
\* APIClientError that carries a 2xx status code.
C30_OkNeverApiError ==
    (last.op = "delete" /\ last.stage = "fetch" /\ last.response.ok) =>
        /\ ~(/\ IsThrow(last.out)
              /\ last.out.name = "APIClientError"
              /\ last.out.statusCode.n \in 200..299)
        /\ last.response.body.json =>
              last.out = Deserialize(last.response.body.v, 0, last.response.body.v)
\* delete() answered 200 OK with the body {xText: {chunks: []}}, which
\* Text._deserialize refuses, rejects with APIClientError(200, "OK")
C30_DecodingErrorWrapped ==
    /\ last.op = "delete" /\ last.stage = "fetch"
    /\ last.response = Response(TRUE, 200, "OK",
                                JsonBody(JMap(<<Entry("xText", JMap(<<Entry("chunks", JArr(<<>>))>>))>>)))
    /\ IsThrow(Deserialize(last.response.body.v, 0, last.response.body.v))
    /\ last.out = ThrowStatus("APIClientError", JNum(200), "OK")
====
